---------------------------- MODULE Spec2Model ----------------------------
(***************************************************************************)
(* Model of the openwurli ML measurement pipeline:                         *)
(*   - src/ml/score_isolation.py   (isolation scoring of note events)      *)
(*   - src/ml/compute_residuals.py (residual targets and dataset assembly) *)
(*   - src/ml/extract_harmonics.py (feature records of qualifying notes)   *)
(*   - src/ml/pipeline.py          (the stages run in sequence)            *)
(*                                                                         *)
(* Units.  Python floats are modelled in fixed point:                      *)
(*   scores, ratios, logs   : integers in units of 1e-6   (S = 1.0)        *)
(*   times                  : integer milliseconds                         *)
(*   note amplitudes        : integers in units of 1e-4 (extract_notes     *)
(*                            rounds amplitudes to 4 decimals)             *)
(*   frequencies            : integer centi-Hz                             *)
(* All arithmetic stays below 2^31.                                        *)
(***************************************************************************)
EXTENDS Integers, Sequences, FiniteSets

VARIABLES
    \* score_isolation.score_notes
    notes,          \* the note list (dicts, scored in place)
    pos,            \* index of the next note of the loop
    branch,         \* per note: which path of the loop body handled it
    \* score_isolation.compute_composite_score applied to given sub-scores
    sub_in,         \* its arguments
    composite_out,  \* its result, with the tier (<<>> before the call)
    \* compute_residuals.assemble_dataset
    real_features,  \* list of real feature records
    model_features, \* dict: <<midi, velocity bucket>> -> model record
    snr_cache,      \* dict: note id -> SNR array (empty: None or {})
    ri,             \* index of the next real feature of the loop
    last,           \* which path the last iteration took
    snr_db,         \* locals of the last matched iteration
    targets,
    mask_vec,
    inputs_list,
    targets_list,
    mask_list,
    weights_list,
    note_ids,
    filter_stats,
    dataset,        \* the returned arrays (<<>> before the return)
    \* the stages run one after the other (pipeline.py and the stage mains)
    stage,          \* which stage is running, or how the run ended
    env,            \* what the run was given: arguments, files, audio
    reported,       \* the decode failures printed so far
    saved,          \* the arrays written to training_data.npz (<<>>: none)
    decodes,        \* the load_audio calls made so far, <<stage, file>>
    \* pipeline.main
    argv,           \* the options given on the command line
    args,           \* the parsed arguments (<<>> before parse_args)
    run_pc,         \* where main is
    num,            \* the stage number the loop is at
    running,        \* the stage whose function is executing, 0 if none
    executed,       \* the stages whose function was called, in order
    labels          \* the status labels printed, in order

scoreVars == <<notes, pos, branch>>

compVars == <<sub_in, composite_out>>

asmVars == <<real_features, model_features, snr_cache, ri, last, snr_db,
             targets, mask_vec, inputs_list, targets_list, mask_list,
             weights_list, note_ids, filter_stats, dataset>>

pipeVars == <<stage, env, reported, saved, decodes>>

runVars == <<argv, args, run_pc, num, running, executed, labels>>

\* Everything but the runner's own state.
measureVars == <<scoreVars, compVars, asmVars, pipeVars>>

vars == <<scoreVars, compVars, asmVars, pipeVars, runVars>>

(***************************************************************************)
(* Fixed-point arithmetic                                                  *)
(***************************************************************************)
S == 1000 * 1000

\* Evaluate an argument once and bind its value (a strict "let").
Let1(F(_), a) == CHOOSE r \in {F(x) : x \in {a}} : TRUE

Let2(F(_, _), a, b) == CHOOSE r \in {F(x, y) : x \in {a}, y \in {b}} : TRUE

Abs(x) == IF x < 0 THEN 0 - x ELSE x

MaxV(a, b) == IF a >= b THEN a ELSE b

Max(a, b) == Let2(MaxV, a, b)

MinV(a, b) == IF a <= b THEN a ELSE b

Min(a, b) == Let2(MinV, a, b)

\* a*b/S for a, b >= 0, rounded to nearest, without overflowing 32 bits.
MulAbs(a, b) ==
    LET ah == a \div 1000
        al == a % 1000
        bh == b \div 1000
        bl == b % 1000
    IN  ah * bh + (ah * bl + al * bh + ((al * bl) \div 1000) + 500) \div 1000

MulV(a, b) ==
    IF (a < 0) = (b < 0) THEN MulAbs(Abs(a), Abs(b))
    ELSE 0 - MulAbs(Abs(a), Abs(b))

\* Signed fixed-point product (float "*").
Mul(a, b) == Let2(MulV, a, b)

\* Long division: n more decimal digits of r/b appended to the quotient q.
RECURSIVE DivDigits(_, _, _, _)
DivDigits(q, r, b, n) ==
    IF n = 0 THEN q
    ELSE Let1(LAMBDA t : DivDigits(10 * q + (t \div b), t % b, b, n - 1),
              10 * r)

DivV(a, b) == DivDigits(a \div b, a % b, b, 6)

\* Fixed-point quotient a/b (float "/") for a >= 0, b > 0.
Div(a, b) == Let2(DivV, a, b)

LN2 == 693147

LN10_OVER_20 == 115129

\* 2*atanh(z) as an odd power series, |z| <= 1/3.
LnSeries(z) ==
    Let1(LAMBDA z2 :
           2 * Mul(z, S + Mul(z2, (S \div 3) + Mul(z2, (S \div 5)
                 + Mul(z2, (S \div 7) + Mul(z2, (S \div 9)
                 + Mul(z2, S \div 11)))))),
         Mul(z, z))

\* ln of m for S/2 < m <= S:  2*atanh((m-1)/(m+1)).
LnCore(m) == Let1(LnSeries, 0 - Div(S - m, S + m))

\* math.log: natural logarithm of x > 0 (range reduction by powers of two).
RECURSIVE Ln(_)
LnV(x) ==
    IF x > S THEN Ln((x + 1) \div 2) + LN2
    ELSE IF 2 * x <= S THEN Ln(2 * x) - LN2
    ELSE LnCore(x)

Ln(x) == Let1(LnV, x)

RECURSIVE Pow2(_)
Pow2(n) == IF n = 0 THEN 1 ELSE 2 * Pow2(n - 1)

\* e^r for 0 <= r < ln 2, Taylor series in Horner form.
ExpCore(r) ==
    S + Mul(r, S + Mul(r, S + Mul(r, S + Mul(r, S + Mul(r, S + Mul(r,
        S + Mul(r, S + Mul(r, S + Mul(r, S) \div 9) \div 8) \div 7) \div 6)
        \div 5) \div 4) \div 3) \div 2)

ExpScale(e, k) ==
    IF k >= 0 THEN e * Pow2(k)
    ELSE (e + Pow2((0 - k) - 1)) \div Pow2(0 - k)

ExpV(y) ==
    IF y < 0 - 20 * S THEN 0
    ELSE Let2(ExpScale, Let1(ExpCore, y - (y \div LN2) * LN2), y \div LN2)

\* math.exp (and, through ln 2 and ln 10, the "**" of the source).
Exp(y) == Let1(ExpV, y)

\* round(x, 4): to the nearest multiple of 1e-4, ties to even.
RoundV(x) ==
    LET q == x \div 100
        r == x % 100
    IN  IF r > 50 \/ (r = 50 /\ q % 2 = 1) THEN (q + 1) * 100 ELSE q * 100

Round4(x) == Let1(RoundV, x)

(***************************************************************************)
(* score_isolation.py                                                      *)
(***************************************************************************)
Unset == 0 - 1

\* A millisecond time as fixed-point seconds.
Sec(ms) == ms * 1000

\* A note amplitude (units of 1e-4) as a fixed-point number.
Amp(note) == note.amplitude * 100

\* goertzel_utils.midi_to_freq, in centi-Hz: 440 * 2^((midi-69)/12).
midi_to_freq(midi_note) ==
    LET e == (midi_note - 69) * LN2
    IN  (44 * Exp(IF e >= 0 THEN e \div 12 ELSE 0 - ((0 - e) \div 12)) + 500)
        \div 1000

\* Fraction of the amplitude of a released note that remains t seconds
\* (fixed point) after its offset.
decay_remaining_amplitude(midi_note, time_since_offset_s) ==
    IF time_since_offset_s <= 0 THEN S
    ELSE LET decay_rate == Mul(260000, Exp(49000 * midi_note))
             decay_dB   == Mul(decay_rate, time_since_offset_s)
         IN  Exp(0 - Mul(decay_dB, LN10_OVER_20))

\* x / max(target amplitude, 1e-6).  The source uses the quotient only
\* through "> 0.1" and min(., 1.0), so quotients of 2.0 and more are
\* reported as 2.0.
RelAmpV(x, d) == IF x >= 2 * d THEN 2 * S ELSE Div(x, d)

RelAmp(x, target_amp) == Let2(RelAmpV, x, Max(target_amp, 1))

\* The penalty of a note whose relative amplitude or energy is rel.
Penalty(rel) == IF rel > 100000 THEN Mul(100000, Min(rel, S)) ELSE 0

\* Mutant of TemporalPenalty: a note still sounding in the window is
\* penalised whatever its relative amplitude.
TemporalPenaltyUnconditional(target, other, window_start_s, window_end_s) ==
    IF other.id = target.id THEN 0
    ELSE IF other.source_file # target.source_file THEN 0
    ELSE IF other.onset_s < window_end_s /\ other.offset_s > window_start_s
    THEN Let1(LAMBDA rel : Mul(100000, Min(rel, S)),
              RelAmp(Amp(other), Amp(target)))
    ELSE IF other.offset_s < window_start_s
    THEN LET time_since_release == Sec(window_start_s - other.offset_s)
             remaining  == decay_remaining_amplitude(other.midi_note,
                                                     time_since_release)
         IN  Let1(Penalty, RelAmp(Mul(remaining, Amp(other)), Amp(target)))
    ELSE 0

\* The penalty one other note contributes to the temporal score.
TemporalPenalty(target, other, window_start_s, window_end_s) ==
    IF other.id = target.id THEN 0
    ELSE IF other.source_file # target.source_file THEN 0
    ELSE IF other.onset_s < window_end_s /\ other.offset_s > window_start_s
    THEN Let1(Penalty, RelAmp(Amp(other), Amp(target)))
    ELSE IF other.offset_s < window_start_s
    THEN LET time_since_release == Sec(window_start_s - other.offset_s)
             remaining  == decay_remaining_amplitude(other.midi_note,
                                                     time_since_release)
         IN  Let1(Penalty, RelAmp(Mul(remaining, Amp(other)), Amp(target)))
    ELSE 0

RECURSIVE TemporalLoop(_, _, _, _, _, _)
TemporalLoop(target, all_notes, window_start_s, window_end_s, k, score) ==
    IF k > Len(all_notes) THEN score
    ELSE TemporalLoop(target, all_notes, window_start_s, window_end_s, k + 1,
                      score - TemporalPenalty(target, all_notes[k],
                                              window_start_s, window_end_s))

score_temporal(target, all_notes, window_start_s, window_end_s) ==
    Max(50000,
        TemporalLoop(target, all_notes, window_start_s, window_end_s, 1, S))

N_HARMONICS == 8

\* 2^(50/1200)
collision_threshold == Exp(Mul(LN2, Div(50, 1200)))

HarmonicWeights == <<2, 2, 2, 2, 1, 1, 1, 1>>

\* Whether two harmonic frequencies are within 50 cents of each other.
Within50Cents(fh, fh_other) ==
    Div(MaxV(fh, fh_other), MaxV(MinV(fh, fh_other), 1)) < collision_threshold

\* Whether harmonic h_target of the target collides with a harmonic of one
\* of the concurrent notes (other_f0s: their fundamentals).
Collides(target_f0, h_target, other_f0s) ==
    \E j \in 1..Len(other_f0s) :
      \E h_other \in 1..N_HARMONICS :
        Within50Cents(target_f0 * h_target, other_f0s[j] * h_other)

RECURSIVE SumWeights(_, _)
SumWeights(mask, h) ==
    IF h > Len(mask) THEN 0
    ELSE (IF mask[h] THEN HarmonicWeights[h] ELSE 0) + SumWeights(mask, h + 1)

AllTrueMask == [h \in 1..N_HARMONICS |-> TRUE]

AllFalseMask == [h \in 1..N_HARMONICS |-> FALSE]

\* The weighted fraction of clean harmonics, with the mask.
WeightedScore(harmonic_mask) ==
    [score |-> Div(SumWeights(harmonic_mask, 1), SumWeights(AllTrueMask, 1)),
     mask |-> harmonic_mask]

CollisionMask(target_f0, other_f0s) ==
    [h \in 1..N_HARMONICS |-> ~Collides(target_f0, h, other_f0s)]

\* Returns [score, mask].
harmonic_collision_check(target_midi, concurrent_midis) ==
    Let1(WeightedScore,
         Let2(CollisionMask, midi_to_freq(target_midi),
              [j \in 1..Len(concurrent_midis) |->
                  midi_to_freq(concurrent_midis[j])]))

\* Whether another note still has significant energy in the window.
HasEnergy(target, other, window_start_s, window_end_s) ==
    IF other.id = target.id THEN FALSE
    ELSE IF other.source_file # target.source_file THEN FALSE
    ELSE IF other.onset_s < window_end_s /\ other.offset_s > window_start_s
    THEN TRUE
    ELSE IF other.offset_s < window_start_s
    THEN LET time_since == Sec(window_start_s - other.offset_s)
             remaining == decay_remaining_amplitude(other.midi_note, time_since)
         IN  Mul(remaining, Amp(other)) > 50000
    ELSE FALSE

RECURSIVE ConcurrentMidis(_, _, _, _, _)
ConcurrentMidis(target, all_notes, window_start_s, window_end_s, k) ==
    IF k > Len(all_notes) THEN <<>>
    ELSE (IF HasEnergy(target, all_notes[k], window_start_s, window_end_s)
          THEN <<all_notes[k].midi_note>> ELSE <<>>)
         \o ConcurrentMidis(target, all_notes, window_start_s, window_end_s,
                            k + 1)

score_harmonic_collision(target, all_notes, window_start_s, window_end_s) ==
    Let1(LAMBDA concurrent_midis :
           IF concurrent_midis = <<>> THEN [score |-> S, mask |-> AllTrueMask]
           ELSE harmonic_collision_check(target.midi_note, concurrent_midis),
         ConcurrentMidis(target, all_notes, window_start_s, window_end_s, 1))

\* Mutant of OtherEnergy: notes of other source files are counted too.
OtherEnergyAnyFile(target, other, window_start_s, window_end_s) ==
    IF other.id = target.id THEN 0
    ELSE IF other.onset_s < window_end_s /\ other.offset_s > window_start_s
    THEN Amp(other)
    ELSE IF other.offset_s < window_start_s
    THEN LET time_since ==
                 500 * (window_start_s + window_end_s) - Sec(other.offset_s)
             remaining == decay_remaining_amplitude(other.midi_note, time_since)
         IN  Mul(remaining, Amp(other))
    ELSE 0

\* The energy one other note adds to the total (window_mid in half ms).
OtherEnergy(target, other, window_start_s, window_end_s) ==
    IF other.id = target.id THEN 0
    ELSE IF other.source_file # target.source_file THEN 0
    ELSE IF other.onset_s < window_end_s /\ other.offset_s > window_start_s
    THEN Amp(other)
    ELSE IF other.offset_s < window_start_s
    THEN LET time_since ==
                 500 * (window_start_s + window_end_s) - Sec(other.offset_s)
             remaining == decay_remaining_amplitude(other.midi_note, time_since)
         IN  Mul(remaining, Amp(other))
    ELSE 0

RECURSIVE TotalEnergy(_, _, _, _, _)
TotalEnergy(target, all_notes, window_start_s, window_end_s, k) ==
    IF k > Len(all_notes) THEN 0
    ELSE OtherEnergy(target, all_notes[k], window_start_s, window_end_s)
         + TotalEnergy(target, all_notes, window_start_s, window_end_s, k + 1)

\* Mutant of score_energy_dominance: the target's energy is left out of
\* the total it is divided by.
dominance_others_only(target, all_notes, window_start_s, window_end_s) ==
    Let1(LAMBDA total_energy :
           IF total_energy < 1 THEN S ELSE Div(Amp(target), total_energy),
         TotalEnergy(target, all_notes, window_start_s, window_end_s, 1))

score_energy_dominance(target, all_notes, window_start_s, window_end_s) ==
    Let1(LAMBDA total_energy :
           IF total_energy < 1 THEN S ELSE Div(Amp(target), total_energy),
         Amp(target)
           + TotalEnergy(target, all_notes, window_start_s, window_end_s, 1))

\* Mutant of score_duration: the veto boundary is inclusive.
score_duration_inclusive(duration_s) ==
    IF duration_s <= 150 THEN 0
    ELSE IF duration_s < 300 THEN 300000
    ELSE IF duration_s < 600 THEN 700000
    ELSE S

\* duration in ms
score_duration(duration_s) ==
    IF duration_s < 150 THEN 0
    ELSE IF duration_s < 300 THEN 300000
    ELSE IF duration_s < 600 THEN 700000
    ELSE S

\* Mutant of compute_composite_score: every sub-score vetoes at 0.
composite_uniform_veto(temporal, collision, dominance, duration) ==
    IF collision <= 0 \/ duration <= 0 \/ temporal <= 0 \/ dominance <= 0
    THEN 0
    ELSE Exp(Mul(350000, Ln(collision)) + Mul(200000, Ln(temporal))
             + Mul(200000, Ln(dominance)) + Mul(250000, Ln(duration)))

\* Mutant of compute_composite_score: every sub-score is floored at 0.05.
composite_uniform_floor(temporal, collision, dominance, duration) ==
    Exp(Mul(350000, Ln(Max(collision, 50000)))
        + Mul(200000, Ln(Max(temporal, 50000)))
        + Mul(200000, Ln(Max(dominance, 50000)))
        + Mul(250000, Ln(Max(duration, 50000))))

compute_composite_score(temporal, collision, dominance, duration) ==
    IF collision <= 0 \/ duration <= 0 THEN 0
    ELSE Exp(Mul(350000, Ln(collision))
             + Mul(200000, Ln(Max(temporal, 50000)))
             + Mul(200000, Ln(Max(dominance, 50000)))
             + Mul(250000, Ln(duration)))

tier_from_score(score) ==
    IF score >= 850000 THEN "gold"
    ELSE IF score >= 550000 THEN "silver"
    ELSE IF score >= 150000 THEN "bronze"
    ELSE "reject"

(***************************************************************************)
(* score_notes: one action per iteration of "for note in notes", one per   *)
(* path of the loop body.                                                  *)
(***************************************************************************)
\* by_file[sf]: the notes of one source file, in list order.
by_file(sf) == SelectSeq(notes, LAMBDA n : n.source_file = sf)

\* The analysis window of a note: [onset+50ms, min(onset+800ms, offset)],
\* the whole note when that is empty.
AnalysisWindow(note) ==
    LET window_start == note.onset_s + 50
        window_end == MinV(note.onset_s + 800, note.offset_s)
    IN  IF window_start >= window_end
        THEN [start |-> note.onset_s, end |-> note.offset_s]
        ELSE [start |-> window_start, end |-> window_end]

\* The four sub-scores and the mask of the full path.
SubScores(note, file_notes, w) ==
    Let1(LAMBDA coll :
           [temporal |-> score_temporal(note, file_notes, w.start, w.end),
            collision |-> coll.score,
            dominance |-> score_energy_dominance(note, file_notes,
                                                 w.start, w.end),
            duration |-> score_duration(note.offset_s - note.onset_s),
            mask |-> coll.mask],
         score_harmonic_collision(note, file_notes, w.start, w.end))

WithComposite(s) ==
    [sub |-> s,
     composite |-> compute_composite_score(s.temporal, s.collision,
                                           s.dominance, s.duration)]

\* The sub-scores with their composite.
FullScore(note, file_notes) ==
    Let1(WithComposite, Let1(LAMBDA w : SubScores(note, file_notes, w),
                             AnalysisWindow(note)))

ScoreObm ==
    /\ pos <= Len(notes)
    /\ notes[pos].source_type = "obm_isolated"
    /\ notes' = [notes EXCEPT ![pos] =
                   [@ EXCEPT !.isolation_score = S,
                             !.isolation_tier = "gold",
                             !.sub_scores = [temporal |-> S, collision |-> S,
                                             dominance |-> S, duration |-> S],
                             !.harmonic_mask = AllTrueMask]]
    /\ branch' = [branch EXCEPT ![pos] = "bypass"]
    /\ pos' = pos + 1
    /\ UNCHANGED <<compVars, asmVars, pipeVars, runVars>>

\* Mutant of ScoreVeto: the duration veto leaves the tier as it was.
ScoreVetoKeepsPending ==
    /\ pos <= Len(notes)
    /\ notes[pos].source_type # "obm_isolated"
    /\ score_duration(notes[pos].offset_s - notes[pos].onset_s) = 0
    /\ notes' = [notes EXCEPT ![pos] =
                   [@ EXCEPT !.isolation_score = 0,
                             !.sub_scores = [temporal |-> 0, collision |-> 0,
                                             dominance |-> 0, duration |-> 0],
                             !.harmonic_mask = AllFalseMask]]
    /\ branch' = [branch EXCEPT ![pos] = "veto"]
    /\ pos' = pos + 1
    /\ UNCHANGED <<compVars, asmVars, pipeVars, runVars>>

\* Mutant of ScoreVeto: the duration veto does not look at the OBM flag.
ScoreVetoBeforeObm ==
    /\ pos <= Len(notes)
    /\ score_duration(notes[pos].offset_s - notes[pos].onset_s) = 0
    /\ notes' = [notes EXCEPT ![pos] =
                   [@ EXCEPT !.isolation_score = 0,
                             !.isolation_tier = "reject",
                             !.sub_scores = [temporal |-> 0, collision |-> 0,
                                             dominance |-> 0, duration |-> 0],
                             !.harmonic_mask = AllFalseMask]]
    /\ branch' = [branch EXCEPT ![pos] = "veto"]
    /\ pos' = pos + 1
    /\ UNCHANGED <<compVars, asmVars, pipeVars, runVars>>

ScoreVeto ==
    /\ pos <= Len(notes)
    /\ notes[pos].source_type # "obm_isolated"
    /\ score_duration(notes[pos].offset_s - notes[pos].onset_s) = 0
    /\ notes' = [notes EXCEPT ![pos] =
                   [@ EXCEPT !.isolation_score = 0,
                             !.isolation_tier = "reject",
                             !.sub_scores = [temporal |-> 0, collision |-> 0,
                                             dominance |-> 0, duration |-> 0],
                             !.harmonic_mask = AllFalseMask]]
    /\ branch' = [branch EXCEPT ![pos] = "veto"]
    /\ pos' = pos + 1
    /\ UNCHANGED <<compVars, asmVars, pipeVars, runVars>>

ScoreFull ==
    /\ pos <= Len(notes)
    /\ notes[pos].source_type # "obm_isolated"
    /\ score_duration(notes[pos].offset_s - notes[pos].onset_s) # 0
    /\ \E r \in {FullScore(notes[pos], by_file(notes[pos].source_file))} :
         notes' = [notes EXCEPT ![pos] =
                     [@ EXCEPT !.isolation_score = Round4(r.composite),
                               !.isolation_tier = tier_from_score(r.composite),
                               !.sub_scores =
                                   [temporal |-> Round4(r.sub.temporal),
                                    collision |-> Round4(r.sub.collision),
                                    dominance |-> Round4(r.sub.dominance),
                                    duration |-> Round4(r.sub.duration)],
                               !.harmonic_mask = r.sub.mask]]
    /\ branch' = [branch EXCEPT ![pos] = "full"]
    /\ pos' = pos + 1
    /\ UNCHANGED <<compVars, asmVars, pipeVars, runVars>>

(***************************************************************************)
(* compute_composite_score and tier_from_score applied to sub-scores:      *)
(* collision from a harmonic mask, duration from a note length, temporal   *)
(* and dominance given.                                                    *)
(***************************************************************************)
CompositeOf(a) ==
    Let2(LAMBDA coll, dur :
           Let1(LAMBDA c : [collision |-> coll, duration |-> dur,
                            composite |-> c, tier |-> tier_from_score(c)],
                compute_composite_score(a.temporal, coll, a.dominance, dur)),
         WeightedScore(a.harmonic_mask).score,
         score_duration(a.duration_s))

ApplyComposite ==
    /\ composite_out = <<>>
    /\ composite_out' = <<CompositeOf(sub_in[1])>>
    /\ UNCHANGED <<sub_in, scoreVars, asmVars, pipeVars, runVars>>

(***************************************************************************)
(* compute_residuals.py                                                    *)
(*   dB values, SNR, amplitudes and targets : fixed point (units of 1e-6)  *)
(*   frequencies                            : centi-Hz                     *)
(*   None / NaN                             : <<>>, a value v : <<v>>      *)
(*   Python index i of an array             : At(array, i)                 *)
(***************************************************************************)
None == <<>>

Some(v) == <<v>>

IsNone(x) == x = None

Val(x) == x[1]

At(array, i) == array[i + 1]

N_FREQ == 5

N_DECAY == 5

N_TARGETS == N_FREQ + N_DECAY + 1

DS_IDX == N_FREQ + N_DECAY

SNR_THRESHOLD_DB == 10

\* Mutant of MAX_RELIABLE_HARMONIC: H4 counted as reliable.
MaxReliableRaised == 2 + 1

MAX_RELIABLE_HARMONIC == 2

VELOCITY_BUCKETS == <<20, 35, 50, 65, 80, 95, 110, 127>>

\* min(VELOCITY_BUCKETS, key=...): the first bucket at the least distance.
RECURSIVE NearestBucket(_, _, _)
NearestBucket(velocity_midi, k, best) ==
    IF k > Len(VELOCITY_BUCKETS) THEN best
    ELSE NearestBucket(velocity_midi, k + 1,
            IF Abs(VELOCITY_BUCKETS[k] - velocity_midi)
                 < Abs(best - velocity_midi)
            THEN VELOCITY_BUCKETS[k] ELSE best)

bucket_velocity(velocity_midi) ==
    NearestBucket(velocity_midi, 2, VELOCITY_BUCKETS[1])

\* x / d rounded toward zero, for a signed fixed-point x.
DivInt(x, d) == IF x >= 0 THEN x \div d ELSE 0 - ((0 - x) \div d)

\* Mutant of detect_anomalous_harmonics: the comparison is reversed.
detect_anomalous_harmonics_reversed(real_dB) ==
    {h \in 1..(MinV(Len(real_dB) - 1, 7) - 1) :
        /\ ~IsNone(At(real_dB, h + 1))
        /\ ~IsNone(At(real_dB, h))
        /\ Val(At(real_dB, h + 1)) < Val(At(real_dB, h))}

\* Mutant of detect_anomalous_harmonics: the loop starts at h = 0, so H2
\* louder than H1 is flagged as well.
detect_anomalous_harmonics_from_h2(real_dB) ==
    {h \in 0..(MinV(Len(real_dB) - 1, 7) - 1) :
        /\ ~IsNone(At(real_dB, h + 1))
        /\ ~IsNone(At(real_dB, h))
        /\ Val(At(real_dB, h + 1)) > Val(At(real_dB, h))}

\* Indices h (0 = H2, 1 = H3, ...) whose harmonic is louder than the
\* next-lower one.
detect_anomalous_harmonics(real_dB) ==
    {h \in 1..(MinV(Len(real_dB) - 1, 7) - 1) :
        /\ ~IsNone(At(real_dB, h + 1))
        /\ ~IsNone(At(real_dB, h))
        /\ Val(At(real_dB, h + 1)) > Val(At(real_dB, h))}

\* Mutant of SnrRejects: the SNR array is read at the target index h
\* instead of the harmonic index h + 1.
SnrRejectsTargetIndex(snr, h_idx) ==
    /\ snr # None
    /\ h_idx < Len(snr)
    /\ \/ IsNone(At(snr, h_idx - 1))
       \/ Val(At(snr, h_idx - 1)) < SNR_THRESHOLD_DB * S

\* The SNR gate: TRUE when the harmonic at h_idx is to be skipped.
SnrRejects(snr, h_idx) ==
    /\ snr # None
    /\ h_idx < Len(snr)
    /\ \/ IsNone(At(snr, h_idx))
       \/ Val(At(snr, h_idx)) < SNR_THRESHOLD_DB * S

\* 1200 * log2(a / b)
Cents(a, b) ==
    Let1(LAMBDA l : IF l >= 0 THEN 1200 * Div(l, LN2)
                    ELSE 0 - 1200 * Div(0 - l, LN2),
         Ln(Div(a, b)))

\* The frequency-offset target of index h (0..4), None when not set.
FreqTarget(h, real_freqs, model_freqs, snr, anomalous) ==
    LET h_idx == h + 1
    IN  IF \/ IsNone(At(real_freqs, h_idx))
           \/ IsNone(At(model_freqs, h_idx))
        THEN None
        ELSE IF \/ Val(At(real_freqs, h_idx)) <= 0
                \/ Val(At(model_freqs, h_idx)) <= 0
        THEN None
        ELSE IF h >= MAX_RELIABLE_HARMONIC THEN None
        ELSE IF SnrRejects(snr, h_idx) THEN None
        ELSE IF h \in anomalous THEN None
        ELSE Some(Cents(Val(At(real_freqs, h_idx)),
                        Val(At(model_freqs, h_idx))))

\* Amplitudes are kept to 1e-6 here, so "> 1e-12" reads "> 0".
AmpOk(a) == ~IsNone(a) /\ Val(a) > 0

\* The decay-offset target of index h (0..4), None when not set.
DecayTarget(h, real_feat, model_feat, snr, anomalous) ==
    LET h_idx == h + 1
        real_early == real_feat.windows.early_sustain
        real_sus == real_feat.windows.sustain
        model_early == model_feat.windows.early_sustain
        model_sus == model_feat.windows.sustain
    IN  IF \/ IsNone(real_early) \/ IsNone(real_sus)
           \/ IsNone(model_early) \/ IsNone(model_sus)
        THEN None
        ELSE IF h >= MinV(MAX_RELIABLE_HARMONIC, N_DECAY) THEN None
        ELSE IF ~(/\ AmpOk(At(Val(real_early).amps_linear, h_idx))
                  /\ AmpOk(At(Val(real_sus).amps_linear, h_idx))
                  /\ AmpOk(At(Val(model_early).amps_linear, h_idx))
                  /\ AmpOk(At(Val(model_sus).amps_linear, h_idx)))
        THEN None
        ELSE IF SnrRejects(snr, h_idx) THEN None
        ELSE IF h \in anomalous THEN None
        ELSE Some(Div(Div(Val(At(Val(real_sus).amps_linear, h_idx)),
                          Val(At(Val(real_early).amps_linear, h_idx))),
                      Div(Val(At(Val(model_sus).amps_linear, h_idx)),
                          Val(At(Val(model_early).amps_linear, h_idx)))))

\* Mutant of DsTarget: the inverted form 2^(-delta/6).
DsTargetInverted(real_dB, model_dB, snr, anomalous) ==
    LET h2_idx == 1
    IN  IF IsNone(At(real_dB, h2_idx)) \/ IsNone(At(model_dB, h2_idx))
        THEN None
        ELSE IF 0 \notin anomalous /\ ~SnrRejects(snr, h2_idx)
        THEN Some(Exp(DivInt(Mul(Val(At(model_dB, h2_idx))
                                   - Val(At(real_dB, h2_idx)), LN2), 6)))
        ELSE None

\* The displacement-scale target 2^(delta/6), None when not set.
DsTarget(real_dB, model_dB, snr, anomalous) ==
    LET h2_idx == 1
    IN  IF IsNone(At(real_dB, h2_idx)) \/ IsNone(At(model_dB, h2_idx))
        THEN None
        ELSE IF 0 \notin anomalous /\ ~SnrRejects(snr, h2_idx)
        THEN Some(Exp(DivInt(Mul(Val(At(real_dB, h2_idx))
                                   - Val(At(model_dB, h2_idx)), LN2), 6)))
        ELSE None

\* The target of Python index i (0..10) given the primary windows.
TargetAt(i, real_feat, model_feat, real_win, model_win, snr, anomalous) ==
    IF i < N_FREQ
    THEN FreqTarget(i, real_win.freqs_hz, model_win.freqs_hz, snr, anomalous)
    ELSE IF i < DS_IDX
    THEN DecayTarget(i - N_FREQ, real_feat, model_feat, snr, anomalous)
    ELSE DsTarget(real_win.amps_dB_rel_H1, model_win.amps_dB_rel_H1,
                  snr, anomalous)

\* The vector of targets set (NaN elsewhere) with the mask of the set ones.
WithMask(t) == [targets |-> t, mask |-> [j \in 1..N_TARGETS |-> t[j] # None]]

\* Mutant of PrimaryWindows: each side falls back to sustain on its own.
PrimaryWindowsPerSide(real_feat, model_feat) ==
    [real |-> IF IsNone(real_feat.windows.early_sustain)
              THEN real_feat.windows.sustain
              ELSE real_feat.windows.early_sustain,
     model |-> IF IsNone(model_feat.windows.early_sustain)
               THEN model_feat.windows.sustain
               ELSE model_feat.windows.early_sustain]

\* The primary window of both sides: early_sustain, else sustain.
PrimaryWindows(real_feat, model_feat) ==
    IF \/ IsNone(real_feat.windows.early_sustain)
       \/ IsNone(model_feat.windows.early_sustain)
    THEN [real |-> real_feat.windows.sustain,
          model |-> model_feat.windows.sustain]
    ELSE [real |-> real_feat.windows.early_sustain,
          model |-> model_feat.windows.early_sustain]

\* Returns [targets, mask]: targets holds None (NaN) at invalid entries.
compute_note_residual(real_feat, model_feat, snr) ==
    Let1(LAMBDA w :
           IF IsNone(w.real) \/ IsNone(w.model)
           THEN WithMask([j \in 1..N_TARGETS |-> None])
           ELSE Let1(LAMBDA anomalous :
                       Let1(WithMask,
                            [j \in 1..N_TARGETS |->
                               TargetAt(j - 1, real_feat, model_feat,
                                        Val(w.real), Val(w.model),
                                        snr, anomalous)]),
                     detect_anomalous_harmonics(Val(w.real).amps_dB_rel_H1)),
         PrimaryWindows(real_feat, model_feat))

\* Mutant of TierWeight: an unrecognized tier gets weight 0.
TierWeightNoDefault(tier) ==
    IF tier = "gold" THEN S
    ELSE IF tier = "silver" THEN 600000
    ELSE IF tier = "bronze" THEN 300000
    ELSE 0

\* TIER_WEIGHTS.get(tier, 0.3)
TierWeight(tier) ==
    IF tier = "gold" THEN S
    ELSE IF tier = "silver" THEN 600000
    ELSE IF tier = "bronze" THEN 300000
    ELSE 300000

\* real_feat.get(key, default): an absent key is held as None.
GetOr(field, default) == IF IsNone(field) THEN default ELSE Val(field)

ModelKey(real_feat) ==
    <<real_feat.midi_note, bucket_velocity(GetOr(real_feat.velocity_midi, 80))>>

\* snr_cache.get(note_id) if snr_cache else None
SnrFor(note_id) ==
    IF note_id \in DOMAIN snr_cache THEN snr_cache[note_id] ELSE None

BumpStat(stats, key, cond) ==
    IF cond THEN [stats EXCEPT ![key] = @ + 1] ELSE stats

\* filter_stats after one matched iteration whose mask is m.
MatchedStats(stats, m) ==
    BumpStat(BumpStat(BumpStat(BumpStat(
        [stats EXCEPT !.total_notes = @ + 1, !.matched = @ + 1],
        "h2_freq_valid", At(m, 0)),
        "h3_freq_valid", At(m, 1)),
        "h2_decay_valid", At(m, N_FREQ)),
        "ds_valid", At(m, DS_IDX))

AnyTrue(m) == \E j \in 1..Len(m) : m[j]

\* [midi_norm, vel_norm]
NormInputs(real_feat) ==
    <<Div(real_feat.midi_note - 21, 108 - 21),
      Div(GetOr(real_feat.velocity_midi, 80), 127)>>

\* Iteration for a real feature with no model record under its key.
AsmSkipUnmatched ==
    /\ dataset = <<>>
    /\ ri <= Len(real_features)
    /\ ModelKey(real_features[ri]) \notin DOMAIN model_features
    /\ filter_stats' = [filter_stats EXCEPT !.total_notes = @ + 1]
    /\ last' = "unmatched"
    /\ ri' = ri + 1
    /\ UNCHANGED <<real_features, model_features, snr_cache, snr_db, targets,
                   mask_vec, inputs_list, targets_list, mask_list,
                   weights_list, note_ids, dataset, scoreVars, compVars,
                   pipeVars, runVars>>

\* Mutant of AsmSkipMasked: the fully masked observation is emitted as a
\* zero-weight row instead of being dropped.
AsmZeroWeightRow ==
    /\ dataset = <<>>
    /\ ri <= Len(real_features)
    /\ ModelKey(real_features[ri]) \in DOMAIN model_features
    /\ \E r \in {compute_note_residual(real_features[ri],
                     model_features[ModelKey(real_features[ri])],
                     SnrFor(real_features[ri].id))} :
         /\ ~AnyTrue(r.mask)
         /\ targets' = r.targets
         /\ mask_vec' = r.mask
         /\ filter_stats' = MatchedStats(filter_stats, r.mask)
         /\ targets_list' = Append(targets_list, r.targets)
         /\ mask_list' = Append(mask_list, r.mask)
    /\ snr_db' = SnrFor(real_features[ri].id)
    /\ inputs_list' = Append(inputs_list, NormInputs(real_features[ri]))
    /\ weights_list' = Append(weights_list, 0)
    /\ note_ids' = Append(note_ids, real_features[ri].id)
    /\ last' = "masked"
    /\ ri' = ri + 1
    /\ UNCHANGED <<real_features, model_features, snr_cache, dataset,
                   scoreVars, compVars,
                   pipeVars, runVars>>

\* Iteration for a matched feature whose mask is all False: no row.
AsmSkipMasked ==
    /\ dataset = <<>>
    /\ ri <= Len(real_features)
    /\ ModelKey(real_features[ri]) \in DOMAIN model_features
    /\ \E r \in {compute_note_residual(real_features[ri],
                     model_features[ModelKey(real_features[ri])],
                     SnrFor(real_features[ri].id))} :
         /\ ~AnyTrue(r.mask)
         /\ targets' = r.targets
         /\ mask_vec' = r.mask
         /\ filter_stats' = MatchedStats(filter_stats, r.mask)
    /\ snr_db' = SnrFor(real_features[ri].id)
    /\ last' = "masked"
    /\ ri' = ri + 1
    /\ UNCHANGED <<real_features, model_features, snr_cache, inputs_list,
                   targets_list, mask_list, weights_list, note_ids, dataset,
                   scoreVars, compVars,
                   pipeVars, runVars>>

\* Iteration for a matched feature with a valid target: one row appended.
AsmAppend ==
    /\ dataset = <<>>
    /\ ri <= Len(real_features)
    /\ ModelKey(real_features[ri]) \in DOMAIN model_features
    /\ \E r \in {compute_note_residual(real_features[ri],
                     model_features[ModelKey(real_features[ri])],
                     SnrFor(real_features[ri].id))} :
         /\ AnyTrue(r.mask)
         /\ targets' = r.targets
         /\ mask_vec' = r.mask
         /\ filter_stats' = MatchedStats(filter_stats, r.mask)
         /\ targets_list' = Append(targets_list, r.targets)
         /\ mask_list' = Append(mask_list, r.mask)
    /\ snr_db' = SnrFor(real_features[ri].id)
    /\ inputs_list' = Append(inputs_list, NormInputs(real_features[ri]))
    /\ weights_list' = Append(weights_list,
           TierWeight(GetOr(real_features[ri].isolation_tier, "bronze")))
    /\ note_ids' = Append(note_ids, real_features[ri].id)
    /\ last' = "kept"
    /\ ri' = ri + 1
    /\ UNCHANGED <<real_features, model_features, snr_cache, dataset,
                   scoreVars, compVars,
                   pipeVars, runVars>>

\* Mutant of NanToNum: invalid entries are filled with 1.0 instead of 0.
NanToNumFillOne(row) ==
    [j \in 1..Len(row) |-> IF IsNone(row[j]) THEN S ELSE Val(row[j])]

\* np.nan_to_num(targets, nan=0.0) on one row.
NanToNum(row) == [j \in 1..Len(row) |-> IF IsNone(row[j]) THEN 0 ELSE Val(row[j])]

\* After the loop: the lists become arrays and NaN targets become 0.
AsmReturn ==
    /\ dataset = <<>>
    /\ ri > Len(real_features)
    /\ dataset' = <<[inputs |-> inputs_list,
                     targets |-> [k \in 1..Len(targets_list) |->
                                     NanToNum(targets_list[k])],
                     mask |-> mask_list,
                     weights |-> weights_list,
                     note_ids |-> note_ids,
                     filter_stats |-> filter_stats]>>
    /\ UNCHANGED <<real_features, model_features, snr_cache, ri, last, snr_db,
                   targets, mask_vec, inputs_list, targets_list, mask_list,
                   weights_list, note_ids, filter_stats, scoreVars, compVars,
                   pipeVars, runVars>>

(***************************************************************************)
(* Input notes, as extract_notes.py creates them.                          *)
(***************************************************************************)
MaxOthers == 1

Files == {"a.wav", "b.wav"}

SourceTypes == {"obm_isolated", "basic_pitch"}

Midis == {60, 61, 72}

Onsets == {0, 1000}

Durations == {149, 150, 151, 300, 600, 1050}

Amplitudes == {0, 5000}

OtherAmplitudes == {500, 5143}

\* A note as extract_notes.py emits it: OBM notes are created at gold,
\* basic-pitch notes at pending; neither carries a score or a mask yet.
NewNote(i, f, ty, m, on, d, a) ==
    [id |-> i, source_file |-> f, source_type |-> ty, midi_note |-> m,
     onset_s |-> on, offset_s |-> on + d, amplitude |-> a,
     isolation_tier |-> IF ty = "obm_isolated" THEN "gold" ELSE "pending",
     isolation_score |-> Unset,
     sub_scores |-> [temporal |-> Unset, collision |-> Unset,
                     dominance |-> Unset, duration |-> Unset],
     harmonic_mask |-> <<>>]

FirstNotes ==
    {NewNote(1, f, ty, m, on, d, a) :
        f \in {"a.wav"}, ty \in SourceTypes, m \in {60}, on \in {0},
        d \in Durations, a \in Amplitudes}

\* Other notes: any pitch in the first note's recording, the first note's
\* pitch in another recording.
OtherNotes(i) ==
    {NewNote(i, fm[1], "basic_pitch", fm[2], on, 600, a) :
        fm \in {x \in Files \X Midis : x[1] = "a.wav" \/ x[2] = 60},
        on \in Onsets, a \in OtherAmplitudes}

\* The lists of one first note and up to n other notes.
RECURSIVE NoteLists(_)
NoteLists(n) ==
    IF n = 0 THEN {<<x>> : x \in FirstNotes}
    ELSE Let1(LAMBDA shorter :
                shorter \cup {Append(l, x) :
                                l \in {m \in shorter : Len(m) = n},
                                x \in OtherNotes(n + 1)},
              NoteLists(n - 1))

ScoreIdle == notes = <<>> /\ pos = 1 /\ branch = <<>>

CompIdle == sub_in = <<>> /\ composite_out = <<>>

AsmIdle ==
    /\ real_features = <<>>
    /\ model_features = <<>>
    /\ snr_cache = <<>>
    /\ ri = 1
    /\ last = "none"
    /\ snr_db = None
    /\ targets = <<>>
    /\ mask_vec = <<>>
    /\ inputs_list = <<>>
    /\ targets_list = <<>>
    /\ mask_list = <<>>
    /\ weights_list = <<>>
    /\ note_ids = <<>>
    /\ filter_stats = <<>>
    /\ dataset = <<>>

\* No stage sequence is running: one function is exercised on its own.
PipeIdle ==
    /\ stage = "idle" /\ env = <<>> /\ reported = {}
    /\ saved = <<>> /\ decodes = <<>>

\* No stage runner is active.
RunIdle ==
    /\ argv = <<>> /\ args = <<>> /\ run_pc = "idle" /\ num = 0
    /\ executed = <<>> /\ running = 0 /\ labels = <<>>

Init ==
    /\ notes \in NoteLists(MaxOthers)
    /\ pos = 1
    /\ branch = [k \in 1..Len(notes) |-> "none"]
    /\ CompIdle
    /\ AsmIdle
    /\ PipeIdle
    /\ RunIdle

Next == ScoreObm \/ ScoreVeto \/ ScoreFull

Spec == Init /\ [][Next]_vars

(***************************************************************************)
(* Sub-scores handed to compute_composite_score.                           *)
(***************************************************************************)
SubScoreGrid == {0, 10000, 50000, 500000, S}

OnlyClean(hs) == [h \in 1..N_HARMONICS |-> h \in hs]

MaskGrid == {OnlyClean({}), OnlyClean({8}), OnlyClean({1}),
             OnlyClean({2, 4, 6, 8}), OnlyClean(1..4), OnlyClean(1..8)}

InitComposite ==
    /\ sub_in \in {<<[temporal |-> t, dominance |-> d, harmonic_mask |-> m,
                      duration_s |-> ms]>> :
                     t \in SubScoreGrid, d \in SubScoreGrid, m \in MaskGrid,
                     ms \in Durations}
    /\ composite_out = <<>>
    /\ ScoreIdle
    /\ AsmIdle
    /\ PipeIdle
    /\ RunIdle

NextComposite == ApplyComposite

SpecComposite == InitComposite /\ [][NextComposite]_vars

(***************************************************************************)
(* Feature records, as extract_harmonics.py and render_model_notes.py      *)
(* store them, and SNR arrays as measure_interharmonic_snr returns them.   *)
(***************************************************************************)
MaxReal == 2

\* A window whose harmonics of (0-based) index in nulls are contaminated:
\* the extractor stores None there in all three arrays.
Window(db, fr, am, nulls) ==
    [amps_dB_rel_H1 |-> [j \in 1..N_HARMONICS |->
                           IF (j - 1) \in nulls THEN None ELSE Some(db[j] * S)],
     freqs_hz |-> [j \in 1..N_HARMONICS |->
                     IF (j - 1) \in nulls THEN None ELSE Some(fr[j])],
     amps_linear |-> [j \in 1..N_HARMONICS |->
                        IF (j - 1) \in nulls THEN None ELSE Some(am[j])]]

DbFalling == <<0, -15, -20, -30, -35, -40, -45, -50>>

DbH3Loud == <<0, -20, -15, -30, -35, -40, -45, -50>>

DbH4Loud == <<0, -15, -20, -10, -35, -40, -45, -50>>

DbSoft == <<0, -20, -25, -30, -35, -40, -45, -50>>

\* The second harmonic louder than the fundamental.
DbH2Loud == <<0, 3, -20, -30, -35, -40, -45, -50>>

\* Harmonic frequencies j * f0 * (1000 + permille) / 1000 of MIDI note 60.
Harmonics(permille) ==
    [j \in 1..N_HARMONICS |-> (j * midi_to_freq(60) * (1000 + permille)) \div 1000]

AmpEarly == <<1000000, 177828, 100000, 31623, 17783, 10000, 5623, 3162>>

AmpSilentH2 == <<1000000, 0, 100000, 31623, 17783, 10000, 5623, 3162>>

AmpSustain == <<800000, 120000, 60000, 20000, 10000, 5000, 2500, 1200>>

AmpSustainModel == <<800000, 100000, 50000, 20000, 10000, 5000, 2500, 1200>>

NullSets == {{}, {1}, {2}, {1, 2}}

RealEarlyWindows ==
    {None} \cup {Some(Window(db, Harmonics(p), am, nulls)) :
                   db \in {DbFalling, DbH3Loud, DbH4Loud, DbH2Loud},
                   p \in {0, 1},
                   am \in {AmpEarly, AmpSilentH2}, nulls \in NullSets}

RealSustainWindows ==
    {None} \cup {Some(Window(db, Harmonics(0), AmpSustain, nulls)) :
                   db \in {DbFalling, DbH3Loud}, nulls \in {{}, {1}}}

ModelEarlyWindows ==
    {None} \cup {Some(Window(db, Harmonics(0), AmpEarly, {})) :
                   db \in {DbFalling, DbSoft}}

ModelSustainWindows ==
    {None, Some(Window(DbFalling, Harmonics(0), AmpSustainModel, {}))}

\* SNR arrays in dB; an entry None is NaN.
SnrArray(db) == [j \in 1..N_HARMONICS |-> IF db[j] = None THEN None ELSE Some(Val(db[j]) * S)]

SnrGood == SnrArray([j \in 1..N_HARMONICS |-> Some(20)])

SnrH2Low == SnrArray([j \in 1..N_HARMONICS |-> IF j = 2 THEN Some(5) ELSE Some(20)])

SnrH2Edge == SnrArray([j \in 1..N_HARMONICS |-> IF j = 2 THEN Some(10) ELSE Some(20)])

SnrH3NaN == SnrArray([j \in 1..N_HARMONICS |-> IF j = 3 THEN None ELSE Some(20)])

SnrBad == SnrArray([j \in 1..N_HARMONICS |-> IF j = 2 THEN Some(5) ELSE None])

RealFeat(id, midi, vel, tier, early, sustain) ==
    [id |-> id, midi_note |-> midi, velocity_midi |-> vel,
     isolation_tier |-> tier,
     windows |-> [early_sustain |-> early, sustain |-> sustain]]

ModelFeat(early, sustain) ==
    [windows |-> [early_sustain |-> early, sustain |-> sustain]]

\* One matched observation, with every combination of windows and SNR.
SingleInputs ==
    {[real |-> <<RealFeat(1, 60, None, Some("gold"), re, rs)>>,
      model |-> [key \in {<<60, 80>>} |-> ModelFeat(me, ms)],
      snr |-> snr] :
        re \in RealEarlyWindows, rs \in RealSustainWindows,
        me \in ModelEarlyWindows, ms \in ModelSustainWindows,
        snr \in {<<>>} \cup {[id \in {1} |-> a] :
                    a \in {SnrGood, SnrH2Low, SnrH2Edge, SnrH3NaN}}}

GoodEarly == Some(Window(DbFalling, Harmonics(1), AmpEarly, {}))

GoodSustain == Some(Window(DbFalling, Harmonics(0), AmpSustain, {}))

\* Tiers a feature record can carry: absent, the three usable tiers, and
\* the "unknown" the extractor writes for a note without a tier.
FeatTiers == {None, Some("gold"), Some("silver"), Some("bronze"), Some("unknown")}

\* Observations of MIDI 60 at the default velocity with every tier and
\* with or without windows, and one observation each at velocity 27 and
\* of MIDI 61.
ListFeats(id) ==
    {RealFeat(id, 60, None, tw[1], tw[2], tw[3]) :
        tw \in {<<Some("gold"), None, None>>}
                \cup {<<tier, GoodEarly, GoodSustain>> : tier \in FeatTiers}}
    \cup {RealFeat(id, mv[1], mv[2], None, GoodEarly, GoodSustain) :
            mv \in {<<60, Some(27)>>, <<61, None>>}}

RECURSIVE FeatLists(_)
FeatLists(n) ==
    IF n = 0 THEN {<<>>}
    ELSE Let1(LAMBDA shorter :
                shorter \cup {Append(l, x) :
                                l \in {m \in shorter : Len(m) = n - 1},
                                x \in ListFeats(n)},
              FeatLists(n - 1))

GoodModel == ModelFeat(Some(Window(DbSoft, Harmonics(0), AmpEarly, {})),
                       Some(Window(DbSoft, Harmonics(0), AmpSustainModel, {})))

ModelDicts ==
    {[key \in keys |-> GoodModel] :
        keys \in {{}, {<<60, 80>>}, {<<60, 80>>, <<60, 20>>, <<61, 80>>}}}

\* Lists of up to MaxReal observations against a few model dicts.
ListInputs ==
    {[real |-> l, model |-> md, snr |-> [id \in ids |-> a]] :
        l \in FeatLists(MaxReal), md \in ModelDicts,
        ids \in {{}, 1..MaxReal}, a \in {SnrGood, SnrBad}}

InitAsm ==
    /\ \E c \in SingleInputs \cup ListInputs :
         /\ real_features = c.real
         /\ model_features = c.model
         /\ snr_cache = c.snr
    /\ ri = 1
    /\ last = "none"
    /\ snr_db = None
    /\ targets = <<>>
    /\ mask_vec = <<>>
    /\ inputs_list = <<>>
    /\ targets_list = <<>>
    /\ mask_list = <<>>
    /\ weights_list = <<>>
    /\ note_ids = <<>>
    /\ filter_stats = [total_notes |-> 0, matched |-> 0, h2_freq_valid |-> 0,
                       h3_freq_valid |-> 0, h2_decay_valid |-> 0,
                       ds_valid |-> 0]
    /\ dataset = <<>>
    /\ ScoreIdle
    /\ CompIdle
    /\ PipeIdle
    /\ RunIdle

NextAsm == AsmSkipUnmatched \/ AsmSkipMasked \/ AsmAppend \/ AsmReturn

SpecAsm == InitAsm /\ [][NextAsm]_vars

(***************************************************************************)
(* The stages in sequence: score_isolation -> extract_harmonics ->         *)
(* render_model_notes -> compute_residuals (pipeline.py and the mains of   *)
(* the stage modules).                                                     *)
(***************************************************************************)
\* Mutant of TierRank: an unscored (pending) note ranks as bronze.
TierRankPendingUsable(tier) ==
    CASE tier = "gold" -> 3
      [] tier = "silver" -> 2
      [] tier = "bronze" -> 1
      [] tier = "reject" -> 0
      [] tier = "pending" -> 1
      [] OTHER -> 0

\* tier_order.get(tier, 0)
TierRank(tier) ==
    CASE tier = "gold" -> 3
      [] tier = "silver" -> 2
      [] tier = "bronze" -> 1
      [] tier = "reject" -> 0
      [] tier = "pending" -> 0 - 1
      [] OTHER -> 0

\* min_tier_val = tier_order.get(min_tier, 1)
MinTierVal(min_tier) ==
    IF min_tier \in {"gold", "silver", "bronze", "reject", "pending"}
    THEN TierRank(min_tier) ELSE 1

\* tier_order.get(n.get("isolation_tier", "reject"), 0) >= min_tier_val
EligibleTier(tier_field, min_tier) ==
    TierRank(GetOr(tier_field, "reject")) >= MinTierVal(min_tier)

\* round() of x / d to the nearest integer, ties to even.
RoundHalfEven(x, d) ==
    IF 2 * (x % d) > d \/ (2 * (x % d) = d /\ (x \div d) % 2 = 1)
    THEN (x \div d) + 1 ELSE x \div d

\* velocity_midi as extract_notes.py sets it: 80 for an OBM note,
\* max(1, min(127, int(round(amplitude * 127)))) for a transcribed one.
VelocityOf(note) ==
    IF note.source_type = "obm_isolated" THEN 80
    ELSE Max(1, Min(127, RoundHalfEven(note.amplitude * 127, 10000)))

\* Mutant of HarmonicMaskOf: the note's mask is not read.
HarmonicMaskDefault(note) == AllTrueMask

\* note.get("harmonic_mask", [True] * N_HARMONICS)
HarmonicMaskOf(note) ==
    IF note.harmonic_mask = <<>> THEN AllTrueMask ELSE note.harmonic_mask

\* Mutant of Nulls: the mask is read one harmonic off.
NullsOneBased(harmonic_mask) == {h \in 1..N_HARMONICS : ~harmonic_mask[h]}

\* 0-based indices of the harmonics the mask marks as contaminated.
Nulls(harmonic_mask) == {h \in 0..(N_HARMONICS - 1) : ~harmonic_mask[h + 1]}

\* Harmonic frequencies j * f0 * (1000 + permille) / 1000 of a MIDI note.
HarmonicsOf(midi, permille) ==
    [j \in 1..N_HARMONICS |->
        (j * midi_to_freq(midi) * (1000 + permille)) \div 1000]

\* int(t * sr) for a time in ms: load_audio resamples to 44100 Hz.
Samples(ms) == (ms * 441) \div 10

\* len(note_audio): the note's samples that the recording holds.
NoteAudioLen(note, audio_ms) ==
    Min(Samples(note.offset_s), Samples(audio_ms)) - Samples(note.onset_s)

\* extract_note_features returns None when the note starts after the end
\* of the recording or holds no sample.
Extractable(note, audio_ms) ==
    /\ Samples(note.onset_s) < Samples(audio_ms)
    /\ NoteAudioLen(note, audio_ms) > 0

\* One entry of features["windows"]: None when the note is shorter than
\* the window's min_dur or the segment has under 128 samples, else the
\* measured harmonics with None at the contaminated ones.
WindowFor(note, win_start, win_end, min_dur, am, audio_ms) ==
    LET duration == note.offset_s - note.onset_s
        actual_end == Min(win_end, duration)
    IN  IF duration < min_dur THEN None
        ELSE IF win_start >= actual_end THEN None
        ELSE IF Min(Samples(actual_end), NoteAudioLen(note, audio_ms))
                   - Samples(win_start) < 128
        THEN None
        ELSE Some(Window(DbFalling, HarmonicsOf(note.midi_note, 1), am,
                         Nulls(HarmonicMaskOf(note))))

\* features["windows"] with WINDOWS early_sustain (0.050, 0.200, min_dur
\* 0.250) and sustain (0.200, 0.800, min_dur 0.500).
extract_note_features(note, audio_ms) ==
    [early_sustain |-> WindowFor(note, 50, 200, 250, AmpEarly, audio_ms),
     sustain |-> WindowFor(note, 200, 800, 500, AmpSustain, audio_ms)]

\* Decay measurement time points, ms after onset.
DECAY_TIMES == <<100, 300, 500, 800, 1000, 1500>>

\* A decay point measured on the 100 ms centred at t, for comparison
\* with DecaySpan.
DecaySpanCentred(t, note, audio_ms) ==
    IF t >= (note.offset_s - note.onset_s) - 50 THEN None
    ELSE LET start_idx == Samples(t - 50)
             end_idx == Min(Samples(t + 50), NoteAudioLen(note, audio_ms))
         IN  IF end_idx - start_idx < 64 THEN None
             ELSE Some(<<start_idx, end_idx>>)

\* The samples of note_audio one decay point is measured on, None when
\* the point is invalid.
DecaySpan(t, note, audio_ms) ==
    IF t >= (note.offset_s - note.onset_s) - 50 THEN None
    ELSE LET start_idx == Samples(t)
             end_idx == Min(Samples(t + 100), NoteAudioLen(note, audio_ms))
         IN  IF end_idx - start_idx < 64 THEN None
             ELSE Some(<<start_idx, end_idx>>)

\* features["decay"]: the measured spans, and whether decay_rate_dB_s is
\* fitted (3 valid points or more; the measured amplitudes are taken to
\* be above 1e-15).
DecayOf(note, audio_ms) ==
    Let1(LAMBDA spans :
           [spans |-> spans,
            rate_fitted |->
               Cardinality({i \in 1..Len(spans) : spans[i] # None}) >= 3],
         [i \in 1..Len(DECAY_TIMES) |->
             DecaySpan(DECAY_TIMES[i], note, audio_ms)])

\* use_goertzel = use_goertzel_for_gold and is_gold
Estimator(note, use_goertzel_for_gold) ==
    IF use_goertzel_for_gold /\ note.isolation_tier = "gold"
    THEN "goertzel" ELSE "fft"

\* The feature record of one note, with the fields copied from the note.
FeatureRecord(note, audio_ms, use_goertzel_for_gold) ==
    [id |-> note.id, midi_note |-> note.midi_note,
     velocity_midi |-> Some(VelocityOf(note)),
     isolation_tier |-> Some(note.isolation_tier),
     isolation_score |-> note.isolation_score,
     source_file |-> note.source_file,
     estimator |-> Estimator(note, use_goertzel_for_gold),
     decay |-> DecayOf(note, audio_ms),
     windows |-> extract_note_features(note, audio_ms)]

\* sorted(by_file.items()): the recordings in path order.
SortedFiles == <<"a.wav", "b.wav">>

\* eligible notes of one recording, in list order.
EligibleOf(ns, sf, min_tier) ==
    SelectSeq(ns, LAMBDA n : /\ n.source_file = sf
                             /\ EligibleTier(Some(n.isolation_tier), min_tier))

\* The records of one recording: none when load_audio raises.  audio
\* gives the recordings that decode and their length in ms.
FileFeatures(ns, sf, min_tier, use_goertzel_for_gold, audio) ==
    IF sf \notin audio.decodable THEN <<>>
    ELSE Let1(LAMBDA sel :
                [k \in 1..Len(sel) |->
                    FeatureRecord(sel[k], audio.length_ms,
                                  use_goertzel_for_gold)],
              SelectSeq(EligibleOf(ns, sf, min_tier),
                        LAMBDA n : Extractable(n, audio.length_ms)))

RECURSIVE FeaturesFrom(_, _, _, _, _)
FeaturesFrom(ns, min_tier, use_goertzel_for_gold, audio, f) ==
    IF f > Len(SortedFiles) THEN <<>>
    ELSE FileFeatures(ns, SortedFiles[f], min_tier, use_goertzel_for_gold,
                      audio)
            \o FeaturesFrom(ns, min_tier, use_goertzel_for_gold, audio, f + 1)

extract_all_harmonics(ns, min_tier, use_goertzel_for_gold, audio) ==
    FeaturesFrom(ns, min_tier, use_goertzel_for_gold, audio, 1)

\* The load_audio calls of extract_all_harmonics, in order: one for each
\* recording that has an eligible note.
ExtractDecodes(ns, min_tier) ==
    Let1(LAMBDA fs : [k \in 1..Len(fs) |-> <<"extract", fs[k]>>],
         SelectSeq(SortedFiles,
                   LAMBDA sf : Len(EligibleOf(ns, sf, min_tier)) > 0))

\* The recordings for which "ERROR loading" is printed.
ExtractFailures(ns, min_tier, decodable) ==
    {sf \in Files : /\ sf \notin decodable
                    /\ Len(EligibleOf(ns, sf, min_tier)) > 0}

\* What measure_interharmonic_snr returns for a recording whose second
\* harmonic stands h2 dB above the noise floor.
MeasuredSnr(h2) ==
    SnrArray([j \in 1..N_HARMONICS |-> IF j = 2 THEN Some(h2) ELSE Some(20)])

\* load_audio_for_snr: an entry for every feature whose recording exists
\* and loads; status maps a recording to "ok", "undecodable" or "missing".
load_audio_for_snr(features, status, h2) ==
    [id \in {features[k].id : k \in {j \in 1..Len(features) :
                                  status[features[j].source_file] = "ok"}}
        |-> MeasuredSnr(h2)]

\* The load_audio calls of load_audio_for_snr from feature k on, in
\* order; audio_cache holds the recordings loaded so far.
RECURSIVE SnrDecodes(_, _, _, _)
SnrDecodes(features, status, k, audio_cache) ==
    IF k > Len(features) THEN <<>>
    ELSE LET source_file == features[k].source_file
         IN  IF status[source_file] = "missing"
             THEN SnrDecodes(features, status, k + 1, audio_cache)
             ELSE IF source_file \in audio_cache
             THEN SnrDecodes(features, status, k + 1, audio_cache)
             ELSE <<<<"snr", source_file>>>>
                    \o SnrDecodes(features, status, k + 1,
                          IF status[source_file] = "ok"
                          THEN audio_cache \cup {source_file}
                          ELSE audio_cache)

\* The recordings for which "WARNING: Could not load" is printed.
SnrFailures(features, status) ==
    {features[k].source_file : k \in {j \in 1..Len(features) :
                     status[features[j].source_file] = "undecodable"}}

\* The model record rendered for one MIDI note.
ModelFor(midi) ==
    ModelFeat(Some(Window(DbSoft, HarmonicsOf(midi, 0), AmpEarly, {})),
              Some(Window(DbSoft, HarmonicsOf(midi, 0), AmpSustainModel, {})))

\* The note lists the stage sequence is run on.
PipeFirstNotes ==
    {NewNote(1, "a.wav", ty, 60, 0, d, 5000) :
        ty \in SourceTypes, d \in {149, 150, 600}}

PipeOtherNotes ==
    {NewNote(2, fm[1], "basic_pitch", fm[2], 0, 600, 5143) :
        fm \in {<<"a.wav", 72>>, <<"a.wav", 48>>, <<"b.wav", 60>>}}

PipeNoteLists ==
    {<<x>> : x \in PipeFirstNotes}
    \cup {<<x, y>> : x \in PipeFirstNotes, y \in PipeOtherNotes}
    \cup {<<NewNote(1, "b.wav", "basic_pitch", 60, 0, 600, 5000),
            NewNote(2, "a.wav", "basic_pitch", 60, 0, 600, 5143)>>}

\* Which recordings load in the extraction stage, and what the residual
\* stage, run later, finds at the same paths.
AudioScenarios ==
    {[decodable |-> {"a.wav", "b.wav"}, length_ms |-> 3000,
      snr_status |-> [f \in Files |-> "ok"]],
     [decodable |-> {"b.wav"}, length_ms |-> 3000,
      snr_status |-> [f \in Files |->
                        IF f = "a.wav" THEN "undecodable" ELSE "ok"]],
     [decodable |-> {"a.wav", "b.wav"}, length_ms |-> 3000,
      snr_status |-> [f \in Files |->
                        IF f = "a.wav" THEN "undecodable" ELSE "ok"]],
     [decodable |-> {"a.wav", "b.wav"}, length_ms |-> 3000,
      snr_status |-> [f \in Files |->
                        IF f = "a.wav" THEN "missing" ELSE "ok"]]}

\* How the residual stage is started: compute_residuals.py with its
\* arguments, or stage 5 of pipeline.py.
ResidualArgs ==
    {[entry |-> "main", no_snr_filter |-> FALSE, snr_threshold |-> 10],
     [entry |-> "main", no_snr_filter |-> FALSE, snr_threshold |-> 15],
     [entry |-> "main", no_snr_filter |-> TRUE, snr_threshold |-> 10],
     [entry |-> "pipeline", no_snr_filter |-> FALSE, snr_threshold |-> 10]}

PipeModelKeys == {{}, {<<60, 65>>, <<60, 80>>, <<72, 65>>}}

\* Recordings that all load, 3 s long or cut off after 501 ms.
AudioLengths ==
    {[decodable |-> {"a.wav", "b.wav"}, length_ms |-> ms,
      snr_status |-> [f \in Files |-> "ok"]] : ms \in {501, 3000}}

\* The options and surroundings of one run: --min-tier and --goertzel-all
\* of extract_harmonics.py, the recordings, the residual stage's
\* arguments, the H2 SNR of the recordings and the rendered model notes.
PipeEnvs ==
    {[min_tier |-> mt, goertzel_all |-> FALSE, audio |-> au,
      residual |-> ra, h2_snr |-> h2, model_keys |-> mk] :
        mt \in {"gold", "silver", "bronze"}, au \in AudioScenarios,
        ra \in ResidualArgs, h2 \in {5, 12}, mk \in PipeModelKeys}
    \cup
    {[min_tier |-> mt, goertzel_all |-> ga, audio |-> au,
      residual |-> [entry |-> "pipeline", no_snr_filter |-> FALSE,
                    snr_threshold |-> 10],
      h2_snr |-> 12, model_keys |-> {<<60, 65>>, <<60, 80>>, <<72, 65>>}] :
        mt \in {"gold", "silver", "bronze"}, ga \in BOOLEAN,
        au \in AudioLengths}

SnrEnabled == env.residual.entry = "main" /\ ~env.residual.no_snr_filter

PipeScoreObm == stage = "score" /\ ScoreObm

PipeScoreVeto == stage = "score" /\ ScoreVeto

PipeScoreFull == stage = "score" /\ ScoreFull

\* extract_harmonics.py on scored_notes.json (written when score_notes
\* has finished) or on the notes.json extract_notes.py wrote.
ExtractAllHarmonics ==
    /\ stage = "score"
    /\ pos = 1 \/ pos > Len(notes)
    /\ real_features' = extract_all_harmonics(notes, env.min_tier,
                                              ~env.goertzel_all, env.audio)
    /\ decodes' = decodes \o ExtractDecodes(notes, env.min_tier)
    /\ reported' = reported \cup
          {<<"extract", sf>> :
              sf \in ExtractFailures(notes, env.min_tier, env.audio.decodable)}
    /\ stage' = "extracted"
    /\ UNCHANGED <<model_features, snr_cache, ri, last, snr_db, targets,
                   mask_vec, inputs_list, targets_list, mask_list,
                   weights_list, note_ids, filter_stats, dataset, env, saved,
                   scoreVars, compVars, runVars>>

\* The residual stage up to the loop of assemble_dataset: both JSON files
\* are read, the SNR cache is filled unless filtering is off, and the
\* lists and counters start empty.
LoadResidualInputs ==
    /\ stage = "extracted"
    /\ model_features' = [key \in env.model_keys |-> ModelFor(key[1])]
    /\ decodes' = IF SnrEnabled
                   THEN decodes \o SnrDecodes(real_features,
                                              env.audio.snr_status, 1, {})
                   ELSE decodes
    /\ snr_cache' = IF SnrEnabled
                    THEN load_audio_for_snr(real_features,
                                            env.audio.snr_status, env.h2_snr)
                    ELSE <<>>
    /\ reported' = IF SnrEnabled
                   THEN reported \cup
                          {<<"snr", sf>> :
                              sf \in SnrFailures(real_features,
                                                 env.audio.snr_status)}
                   ELSE reported
    /\ filter_stats' = [total_notes |-> 0, matched |-> 0, h2_freq_valid |-> 0,
                        h3_freq_valid |-> 0, h2_decay_valid |-> 0,
                        ds_valid |-> 0]
    /\ stage' = "assemble"
    /\ UNCHANGED <<real_features, ri, last, snr_db, targets, mask_vec,
                   inputs_list, targets_list, mask_list, weights_list,
                   note_ids, dataset, env, saved, scoreVars, compVars,
                   runVars>>

PipeAsmSkipUnmatched == stage = "assemble" /\ AsmSkipUnmatched

PipeAsmSkipMasked == stage = "assemble" /\ AsmSkipMasked

PipeAsmAppend == stage = "assemble" /\ AsmAppend

PipeAsmReturn == stage = "assemble" /\ AsmReturn

\* print_dataset_summary: inputs[:, 0] needs a two-dimensional array, and
\* np.array([]) of no rows has one dimension, so IndexError is raised and
\* nothing catches it.
PrintDatasetSummary ==
    /\ stage = "assemble"
    /\ dataset # <<>>
    /\ stage' = IF Len(dataset[1].inputs) = 0 THEN "aborted" ELSE "summarized"
    /\ UNCHANGED <<env, reported, saved, decodes, scoreVars, compVars,
                   asmVars, runVars>>

\* np.savez(output_path, inputs=..., targets=..., mask=..., weights=...)
SaveDataset ==
    /\ stage = "summarized"
    /\ saved' = <<[inputs |-> dataset[1].inputs,
                   targets |-> dataset[1].targets,
                   mask |-> dataset[1].mask,
                   weights |-> dataset[1].weights]>>
    /\ stage' = "saved"
    /\ UNCHANGED <<env, reported, decodes, scoreVars, compVars, asmVars,
                   runVars>>

InitPipe ==
    /\ notes \in PipeNoteLists
    /\ pos = 1
    /\ branch = [k \in 1..Len(notes) |-> "none"]
    /\ CompIdle
    /\ AsmIdle
    /\ stage = "score"
    /\ env \in PipeEnvs
    /\ reported = {}
    /\ saved = <<>>
    /\ decodes = <<>>
    /\ RunIdle

NextPipe ==
    \/ PipeScoreObm
    \/ PipeScoreVeto
    \/ PipeScoreFull
    \/ ExtractAllHarmonics
    \/ LoadResidualInputs
    \/ PipeAsmSkipUnmatched
    \/ PipeAsmSkipMasked
    \/ PipeAsmAppend
    \/ PipeAsmReturn
    \/ PrintDatasetSummary
    \/ SaveDataset

SpecPipe == InitPipe /\ [][NextPipe]_vars

(***************************************************************************)
(* score_harmonic_collision on two transcribed notes of one recording: an  *)
(* earlier note of several pitches, lengths and levels, and a later note   *)
(* of MIDI 60 whose window starts 1.05 s after the earlier note's onset.   *)
(***************************************************************************)
CollisionLists ==
    {<<NewNote(1, "a.wav", "basic_pitch", m, 0, d, a),
       NewNote(2, "a.wav", "basic_pitch", 60, 1000, 600, ta)>> :
        m \in {60, 61, 67, 70, 72}, d \in {600, 1050, 1100},
        a \in {400, 500, 600, 5000}, ta \in {5000, 10000}}

InitCollision ==
    /\ notes \in CollisionLists
    /\ pos = 1
    /\ branch = [k \in 1..Len(notes) |-> "none"]
    /\ CompIdle
    /\ AsmIdle
    /\ PipeIdle
    /\ RunIdle

NextCollision == ScoreFull

SpecCollision == InitCollision /\ [][NextCollision]_vars

(***************************************************************************)
(* pipeline.py main: the stage runner (specification SpecRunner)           *)
(***************************************************************************)

\* The stage table: stage number n is STAGES[n].
STAGES ==
    <<"Extract notes", "Score isolation", "Extract harmonics",
      "Render model notes", "Compute residuals", "Train MLP",
      "Export to Rust">>

\* The command lines tried: --from-stage (default 1), --through-stage
\* (default 5), --train and --dry-run.
RunOptions ==
    [from_stage : {0, 1, 3, 6, 8}, through_stage : {0, 2, 5, 7, 9},
     train : BOOLEAN, dry_run : BOOLEAN]

\* Mutant of ParsedArgs: --train does not change through_stage.
ParsedArgsKeepThrough(options) == options

\* args after parse_args() and `if args.train: args.through_stage = 7`.
ParsedArgs(options) ==
    IF options.train THEN [options EXCEPT !.through_stage = 7] ELSE options

\* The status printed for stage n by the dry run.
DryRunStatus(n) ==
    IF n > args.through_stage THEN "SKIP (beyond --through-stage)"
    ELSE IF n < args.from_stage THEN "SKIP (before --from-stage)"
    ELSE "RUN"

\* parse_args() and the --train override.
RunParseArgs ==
    /\ run_pc = "parse"
    /\ args' = ParsedArgs(argv)
    /\ run_pc' = IF argv.dry_run THEN "dry_run" ELSE "loop"
    /\ num' = 1
    /\ UNCHANGED <<argv, executed, running, labels,
                   measureVars>>

\* The --dry-run branch: one status line per stage, then return.
RunDryRun ==
    /\ run_pc = "dry_run"
    /\ labels' = [n \in 1..Len(STAGES) |-> DryRunStatus(n)]
    /\ run_pc' = "returned"
    /\ UNCHANGED <<argv, args, num, executed, running,
                   measureVars>>

\* for num, name, func in STAGES: `if num > args.through_stage: break`,
\* or the table is exhausted; "Pipeline complete" is printed.
RunLoopEnd ==
    /\ run_pc = "loop"
    /\ num > Len(STAGES) \/ num > args.through_stage
    /\ run_pc' = "complete"
    /\ UNCHANGED <<argv, args, num, executed, running, labels,
                   measureVars>>

\* `if num < args.from_stage`: "[SKIPPED]" is printed, continue.
RunLoopSkip ==
    /\ run_pc = "loop"
    /\ num <= Len(STAGES)
    /\ num <= args.through_stage
    /\ num < args.from_stage
    /\ labels' = Append(labels, "SKIPPED")
    /\ num' = num + 1
    /\ UNCHANGED <<argv, args, run_pc, executed, running,
                   measureVars>>

\* func(args) is called.
RunStageCall ==
    /\ run_pc = "loop"
    /\ num <= Len(STAGES)
    /\ num <= args.through_stage
    /\ num >= args.from_stage
    /\ running' = num
    /\ executed' = Append(executed, num)
    /\ run_pc' = "in_stage"
    /\ UNCHANGED <<argv, args, num, labels,
                   measureVars>>

\* func(args) returns; the loop goes on with the next stage.
RunStageReturn ==
    /\ run_pc = "in_stage"
    /\ running' = 0
    /\ num' = num + 1
    /\ run_pc' = "loop"
    /\ UNCHANGED <<argv, args, executed, labels,
                   measureVars>>

\* func(args) raises or calls sys.exit: nothing catches it and the
\* process ends.
RunStageRaises ==
    /\ run_pc = "in_stage"
    /\ run_pc' = "terminated"
    /\ UNCHANGED <<argv, args, num, executed, running, labels,
                   measureVars>>

InitRunner ==
    /\ ScoreIdle
    /\ CompIdle
    /\ AsmIdle
    /\ PipeIdle
    /\ argv \in RunOptions
    /\ args = <<>>
    /\ run_pc = "parse"
    /\ num = 0
    /\ executed = <<>>
    /\ running = 0
    /\ labels = <<>>

NextRunner ==
    \/ RunParseArgs
    \/ RunDryRun
    \/ RunLoopEnd
    \/ RunLoopSkip
    \/ RunStageCall
    \/ RunStageReturn
    \/ RunStageRaises

SpecRunner == InitRunner /\ [][NextRunner]_vars

(***************************************************************************)
(* Properties of score_notes (specification Spec)                          *)
(***************************************************************************)
Scored(k) == branch[k] # "none"

Duration(k) == notes[k].offset_s - notes[k].onset_s

\* Note j sounds in the analysis window of note k, in the same recording.
SoundsIn(j, k) ==
    /\ j # k
    /\ notes[j].source_file = notes[k].source_file
    /\ notes[j].onset_s < AnalysisWindow(notes[k]).end
    /\ notes[j].offset_s > AnalysisWindow(notes[k]).start

Rejected(k) ==
    /\ notes[k].harmonic_mask = AllFalseMask
    /\ notes[k].sub_scores.collision = 0
    /\ notes[k].isolation_score = 0
    /\ notes[k].isolation_tier = "reject"

\* C2: after score_notes the stored isolation_tier of every note is the tier
\* the documented thresholds assign to the note's stored isolation_score.
C2_TierMatchesStoredScore ==
    \A k \in 1..Len(notes) :
        Scored(k) =>
            notes[k].isolation_tier = tier_from_score(notes[k].isolation_score)

\* C2 witness: a fully scored note whose stored score is 0.85 (the gold
\* threshold) and whose stored tier is silver.
C2_Witness ==
    \E k \in 1..Len(notes) :
        /\ branch[k] = "full"
        /\ notes[k].isolation_score = 850000
        /\ notes[k].isolation_tier = "silver"

\* C3: every scored note has a harmonic_mask of exactly 8 booleans and an
\* isolation_score in [0, 1], on the bypass, veto and full paths alike.
C3_MaskLengthAndScoreRange ==
    \A k \in 1..Len(notes) :
        Scored(k) =>
            /\ Len(notes[k].harmonic_mask) = 8
            /\ \A h \in 1..8 : notes[k].harmonic_mask[h] \in BOOLEAN
            /\ notes[k].isolation_score >= 0
            /\ notes[k].isolation_score <= S

\* C3 witness: a vetoed first note and a fully scored second note whose
\* mask is mixed and whose score lies strictly inside (0, 1).
C3_Witness ==
    /\ Len(notes) = 2
    /\ branch[1] = "veto"
    /\ branch[2] = "full"
    /\ \E h \in 1..8 : notes[2].harmonic_mask[h]
    /\ \E h \in 1..8 : ~notes[2].harmonic_mask[h]
    /\ notes[2].isolation_score > 0
    /\ notes[2].isolation_score < S

\* C5: a note flagged obm_isolated leaves score_notes with score 1.0, tier
\* gold, a mask of 8 True and the constant sub-scores of the bypass, taken
\* on the bypass path (no sub-score is computed), whatever its duration and
\* whatever the other notes of its recording.
C5_ObmBypass ==
    \A k \in 1..Len(notes) :
        (Scored(k) /\ notes[k].source_type = "obm_isolated") =>
            /\ branch[k] = "bypass"
            /\ notes[k].isolation_score = S
            /\ notes[k].isolation_tier = "gold"
            /\ notes[k].harmonic_mask = AllTrueMask
            /\ notes[k].sub_scores = [temporal |-> S, collision |-> S,
                                      dominance |-> S, duration |-> S]

\* C5 witness: a scored OBM note shorter than 150 ms with a louder note of
\* the same pitch sounding in its window.
C5_Witness ==
    /\ Len(notes) = 2
    /\ Scored(1)
    /\ notes[1].source_type = "obm_isolated"
    /\ Duration(1) < 150
    /\ SoundsIn(2, 1)
    /\ notes[2].midi_note = notes[1].midi_note
    /\ notes[2].amplitude > notes[1].amplitude

\* C6 (as stated): a note of the same pitch class sounding in the target's
\* analysis window contaminates all 8 harmonics: collision 0, composite 0,
\* tier reject.
C6_SamePitchClassRejects ==
    \A k \in 1..Len(notes) : \A j \in 1..Len(notes) :
        (/\ Scored(k)
         /\ SoundsIn(j, k)
         /\ notes[j].midi_note % 12 = notes[k].midi_note % 12) => Rejected(k)

\* C6 (amended): a note of the same MIDI pitch sounding in the analysis
\* window of a target that is not an OBM ground-truth note contaminates
\* all 8 harmonics: collision 0, composite 0, tier reject.
C6_SamePitchRejects ==
    \A k \in 1..Len(notes) : \A j \in 1..Len(notes) :
        (/\ Scored(k)
         /\ notes[k].source_type # "obm_isolated"
         /\ SoundsIn(j, k)
         /\ notes[j].midi_note = notes[k].midi_note) => Rejected(k)

\* C6 witness: a fully scored note of 600 ms, louder than a concurrent note
\* of the same pitch, rejected.
C6_Witness ==
    /\ Len(notes) = 2
    /\ branch[1] = "full"
    /\ Duration(1) = 600
    /\ SoundsIn(2, 1)
    /\ notes[2].midi_note = notes[1].midi_note
    /\ notes[2].amplitude < notes[1].amplitude
    /\ Rejected(1)

\* C7 (as stated): a note of exactly 150 ms has duration sub-score 0 and is
\* rejected with score 0; a note of 151 ms has duration sub-score 0.3.
C7_Veto150 ==
    \A k \in 1..Len(notes) :
        (Scored(k) /\ notes[k].source_type # "obm_isolated") =>
            /\ Duration(k) = 150 =>
                 /\ notes[k].sub_scores.duration = 0
                 /\ notes[k].isolation_score = 0
                 /\ notes[k].isolation_tier = "reject"
            /\ Duration(k) = 151 => notes[k].sub_scores.duration = 300000

\* C7 (amended): a note of 149 ms (not an OBM note) has duration sub-score 0
\* and is rejected with score 0; notes of exactly 150 ms and of 151 ms have
\* duration sub-score 0.3 and are scored on the full path.
C7_VetoBelow150 ==
    \A k \in 1..Len(notes) :
        (Scored(k) /\ notes[k].source_type # "obm_isolated") =>
            /\ Duration(k) = 149 =>
                 /\ branch[k] = "veto"
                 /\ notes[k].sub_scores.duration = 0
                 /\ notes[k].isolation_score = 0
                 /\ notes[k].isolation_tier = "reject"
            /\ Duration(k) \in {150, 151} =>
                 /\ branch[k] = "full"
                 /\ notes[k].sub_scores.duration = 300000

\* C7 witness: a scored note of exactly 150 ms, alone in its recording, with
\* a positive score.
C7_Witness ==
    /\ Len(notes) = 1
    /\ Scored(1)
    /\ notes[1].source_type # "obm_isolated"
    /\ Duration(1) = 150
    /\ notes[1].isolation_score > 0

(***************************************************************************)
(* Properties of compute_composite_score (specification SpecComposite)     *)
(***************************************************************************)
\* C4: the composite is 0 exactly when the collision or the duration
\* sub-score is 0; temporal and dominance, even 0, never make it 0, so
\* a note of at least 150 ms with a clean harmonic has a composite > 0.
C4_VetoOnlyByCollisionOrDuration ==
    composite_out # <<>> =>
        /\ composite_out[1].composite = 0
             <=> (composite_out[1].collision = 0 \/ composite_out[1].duration = 0)
        /\ (/\ sub_in[1].duration_s >= 150
            /\ \E h \in 1..8 : sub_in[1].harmonic_mask[h])
             => composite_out[1].composite > 0

\* C4 witness: temporal 0 and dominance 0 with a single clean harmonic (H8)
\* and a note of exactly 150 ms give a composite above 0.
C4_Witness ==
    /\ composite_out # <<>>
    /\ sub_in[1].temporal = 0
    /\ sub_in[1].dominance = 0
    /\ sub_in[1].duration_s = 150
    /\ sub_in[1].harmonic_mask = OnlyClean({8})
    /\ composite_out[1].composite > 0

(***************************************************************************)
(* Properties of assemble_dataset (specification SpecAsm)                  *)
(***************************************************************************)
\* The last iteration computed a residual (the observation was matched).
LastMatched == last \in {"masked", "kept"}

LastReal == real_features[ri - 1]

LastModel == model_features[ModelKey(LastReal)]

LastHasPrimary ==
    /\ ~IsNone(PrimaryWindows(LastReal, LastModel).real)
    /\ ~IsNone(PrimaryWindows(LastReal, LastModel).model)

LastRealWin == Val(PrimaryWindows(LastReal, LastModel).real)

LastModelWin == Val(PrimaryWindows(LastReal, LastModel).model)

\* C1: every row of the dataset has a True entry in its 11-element mask; a
\* matched observation whose mask is all False adds no row.
C1_NoAllFalseRow ==
    /\ \A k \in 1..Len(mask_list) :
         Len(mask_list[k]) = 11 /\ AnyTrue(mask_list[k])
    /\ Len(inputs_list) = Len(mask_list)
    /\ Len(targets_list) = Len(mask_list)
    /\ Len(weights_list) = Len(mask_list)
    /\ Len(note_ids) = Len(mask_list)
    /\ (LastMatched /\ ~AnyTrue(mask_vec)) =>
         \A k \in 1..Len(note_ids) : note_ids[k] # LastReal.id
    /\ dataset # <<>> =>
         /\ dataset[1].mask = mask_list
         /\ Len(dataset[1].targets) = Len(mask_list)
         /\ Len(dataset[1].weights) = Len(mask_list)

\* C1 witness: a returned dataset with a row, after a matched observation
\* with an all-False mask was dropped.
C1_Witness ==
    /\ dataset # <<>>
    /\ Len(dataset[1].mask) = 1
    /\ dataset[1].filter_stats.matched = 2
    /\ last = "masked"

\* C8: when the H2 SNR of the observation is below 10 dB, the mask is False
\* at the H2 frequency-offset target and at the displacement-scale target.
C8_LowH2SnrMasksFreqAndDs ==
    (/\ LastMatched
     /\ snr_db # None
     /\ ~IsNone(At(snr_db, 1))
     /\ Val(At(snr_db, 1)) < 10 * S) =>
        ~At(mask_vec, 0) /\ ~At(mask_vec, DS_IDX)

\* C8 witness: H2 SNR of 5 dB with the H2 amplitude, dB and frequency
\* non-null on both sides; the H3 frequency target stays valid.
C8_Witness ==
    /\ LastMatched
    /\ snr_db # None
    /\ At(snr_db, 1) = Some(5 * S)
    /\ LastHasPrimary
    /\ ~IsNone(At(LastRealWin.amps_linear, 1))
    /\ ~IsNone(At(LastRealWin.amps_dB_rel_H1, 1))
    /\ ~IsNone(At(LastRealWin.freqs_hz, 1))
    /\ ~IsNone(At(LastModelWin.amps_linear, 1))
    /\ ~IsNone(At(LastModelWin.amps_dB_rel_H1, 1))
    /\ ~IsNone(At(LastModelWin.freqs_hz, 1))
    /\ At(mask_vec, 1)
    /\ ~At(mask_vec, 0)
    /\ ~At(mask_vec, DS_IDX)

\* The real dB relative to H1 of the last observation is h2 at H2, h3 at H3.
LastRealDb(h2, h3) ==
    /\ LastMatched
    /\ LastHasPrimary
    /\ At(LastRealWin.amps_dB_rel_H1, 1) = Some(h2 * S)
    /\ At(LastRealWin.amps_dB_rel_H1, 2) = Some(h3 * S)

H3Excluded ==
    /\ 1 \in detect_anomalous_harmonics(LastRealWin.amps_dB_rel_H1)
    /\ ~At(mask_vec, 1)
    /\ ~At(mask_vec, 6)

\* C9 (as stated): with real dB -20 at H3 and -15 at H2, h = 1 (H3) is
\* flagged anomalous and the H3 frequency and decay targets are excluded.
C9_H3Minus20Flagged == LastRealDb(-15, -20) => H3Excluded

\* C9 (amended): with real dB -15 at H3 and -20 at H2 (H3 louder), h = 1 is
\* flagged anomalous and the H3 frequency and decay targets are excluded;
\* with -20 at H3 and -15 at H2 (H3 quieter) h = 1 is not flagged.
C9_H3LouderFlagged ==
    /\ LastRealDb(-20, -15) => H3Excluded
    /\ LastRealDb(-15, -20) =>
         1 \notin detect_anomalous_harmonics(LastRealWin.amps_dB_rel_H1)

\* C9 witness: H3 louder than H2, good SNR, H3 frequencies and amplitudes
\* present on both sides in both windows: the H3 targets are excluded while
\* the H2 targets stay valid.
C9_Witness ==
    /\ LastRealDb(-20, -15)
    /\ snr_db = SnrGood
    /\ ~IsNone(At(LastRealWin.freqs_hz, 2))
    /\ ~IsNone(LastReal.windows.sustain)
    /\ ~IsNone(LastModel.windows.sustain)
    /\ ~IsNone(LastModel.windows.early_sustain)
    /\ ~IsNone(LastReal.windows.early_sustain)
    /\ AmpOk(At(Val(LastReal.windows.sustain).amps_linear, 2))
    /\ AmpOk(At(Val(LastReal.windows.early_sustain).amps_linear, 2))
    /\ At(mask_vec, 0)
    /\ At(mask_vec, N_FREQ)
    /\ H3Excluded

\* C10: mask entries 2, 3, 4 (frequency H4-H6) and 7, 8, 9 (decay H4-H6)
\* are False in every residual vector and in every dataset row.
C10_OnlyFirstTwoHarmonics ==
    /\ LastMatched => \A i \in {2, 3, 4, 7, 8, 9} : ~At(mask_vec, i)
    /\ \A k \in 1..Len(mask_list) :
         \A i \in {2, 3, 4, 7, 8, 9} : ~At(mask_list[k], i)

\* C10 witness: a kept observation with H4-H6 frequencies and amplitudes
\* present on both sides and good SNR, whose mask is True exactly at
\* 0, 1, 5, 6, 10.
C10_Witness ==
    /\ last = "kept"
    /\ snr_db = SnrGood
    /\ LastHasPrimary
    /\ \A h \in 3..5 : /\ ~IsNone(At(LastRealWin.freqs_hz, h))
                      /\ ~IsNone(At(LastModelWin.freqs_hz, h))
                      /\ AmpOk(At(LastRealWin.amps_linear, h))
    /\ \A i \in 0..10 : At(mask_vec, i) <=> i \in {0, 1, 5, 6, 10}

\* Real minus model H2 dB relative to H1 of the last observation.
LastDelta ==
    Val(At(LastRealWin.amps_dB_rel_H1, 1))
      - Val(At(LastModelWin.amps_dB_rel_H1, 1))

\* C11: a valid displacement-scale target equals 2^(D/6), D = real minus
\* model H2 dB relative to H1: above 1 exactly when D > 0, 1 when D = 0,
\* below 1 when D < 0; 2^(5/6) = 1.781797 for D = 5 and 2^(-5/6) =
\* 0.561231 for D = -5.
C11_DsCorrectionSign ==
    (LastMatched /\ At(mask_vec, DS_IDX)) =>
        /\ ~IsNone(At(targets, DS_IDX))
        /\ (Val(At(targets, DS_IDX)) > S) <=> (LastDelta > 0)
        /\ (Val(At(targets, DS_IDX)) = S) <=> (LastDelta = 0)
        /\ (Val(At(targets, DS_IDX)) < S) <=> (LastDelta < 0)
        /\ LastDelta = 5 * S => Abs(Val(At(targets, DS_IDX)) - 1781797) <= 5
        /\ LastDelta = 0 - 5 * S => Abs(Val(At(targets, DS_IDX)) - 561231) <= 5

\* C11 witness: a kept observation whose real H2 is 5 dB above the model's
\* and whose displacement-scale target is above 1.
C11_Witness ==
    /\ last = "kept"
    /\ At(mask_vec, DS_IDX)
    /\ LastDelta = 5 * S
    /\ Val(At(targets, DS_IDX)) > S

\* The real observation of a given id, and the residual computed for it.
RealById(id) ==
    CHOOSE f \in {real_features[i] : i \in 1..Len(real_features)} : f.id = id

ResidualById(id) ==
    compute_note_residual(RealById(id), model_features[ModelKey(RealById(id))],
                          SnrFor(id))

\* Position of the observation of a given id in real_features.
PosOfId(id) ==
    CHOOSE i \in 1..Len(real_features) : real_features[i].id = id

ReleasedBefore(j, k) ==
    /\ j # k
    /\ notes[j].source_file = notes[k].source_file
    /\ ~SoundsIn(j, k)
    /\ notes[j].offset_s < AnalysisWindow(notes[k]).start

\* Note j has released exactly at the start of the analysis window of k.
ReleasedAt(j, k) ==
    /\ j # k
    /\ notes[j].source_file = notes[k].source_file
    /\ ~SoundsIn(j, k)
    /\ notes[j].offset_s = AnalysisWindow(notes[k]).start

\* The amplitude of j relative to k, sounding.
RelSounding(j, k) == RelAmp(Amp(notes[j]), Amp(notes[k]))

\* The decayed amplitude of j at the window start of k, relative to k.
RelDecayed(j, k) ==
    RelAmp(Mul(decay_remaining_amplitude(notes[j].midi_note,
                 Sec(AnalysisWindow(notes[k]).start - notes[j].offset_s)),
               Amp(notes[j])),
           Amp(notes[k]))

\* 0.10 * min(rel, 1.0)
Tenth(rel) == Mul(100000, Min(rel, S))

\* The sum of the claim as stated, over notes j..Len(notes).
RECURSIVE StatedPenaltySum(_, _)
StatedPenaltySum(k, j) ==
    IF j > Len(notes) THEN 0
    ELSE StatedPenaltySum(k, j + 1)
         + (IF SoundsIn(j, k) THEN Tenth(RelSounding(j, k))
            ELSE IF (ReleasedBefore(j, k) \/ ReleasedAt(j, k))
                    /\ RelDecayed(j, k) > 100000
            THEN Tenth(RelDecayed(j, k))
            ELSE 0)

\* The sum of the amended claim, over notes j..Len(notes).
RECURSIVE AmendedPenaltySum(_, _)
AmendedPenaltySum(k, j) ==
    IF j > Len(notes) THEN 0
    ELSE AmendedPenaltySum(k, j + 1)
         + (IF SoundsIn(j, k) /\ RelSounding(j, k) > 100000
            THEN Tenth(RelSounding(j, k))
            ELSE IF ReleasedBefore(j, k) /\ RelDecayed(j, k) > 100000
            THEN Tenth(RelDecayed(j, k))
            ELSE 0)

C20_BoundaryReached ==
    /\ Len(notes) = 2
    /\ branch[2] = "full"
    /\ ReleasedAt(1, 2)
    /\ notes[1].amplitude = 5000
    /\ notes[2].sub_scores.temporal = S

(***************************************************************************)
(* Locality of score_notes (specification Spec)                            *)
(***************************************************************************)
\* What the loop body of score_notes assigns to a note when the sub-score
\* functions are handed the list file_notes.
ScoreOutcome(note, file_notes) ==
    IF note.source_type = "obm_isolated"
    THEN [isolation_score |-> S, isolation_tier |-> "gold",
          sub_scores |-> [temporal |-> S, collision |-> S,
                          dominance |-> S, duration |-> S],
          harmonic_mask |-> AllTrueMask]
    ELSE IF score_duration(note.offset_s - note.onset_s) = 0
    THEN [isolation_score |-> 0, isolation_tier |-> "reject",
          sub_scores |-> [temporal |-> 0, collision |-> 0,
                          dominance |-> 0, duration |-> 0],
          harmonic_mask |-> AllFalseMask]
    ELSE Let1(LAMBDA r :
                [isolation_score |-> Round4(r.composite),
                 isolation_tier |-> tier_from_score(r.composite),
                 sub_scores |-> [temporal |-> Round4(r.sub.temporal),
                                 collision |-> Round4(r.sub.collision),
                                 dominance |-> Round4(r.sub.dominance),
                                 duration |-> Round4(r.sub.duration)],
                 harmonic_mask |-> r.sub.mask],
              FullScore(note, file_notes))

\* What score_notes stored on note k.
Stored(k) ==
    [isolation_score |-> notes[k].isolation_score,
     isolation_tier |-> notes[k].isolation_tier,
     sub_scores |-> notes[k].sub_scores,
     harmonic_mask |-> notes[k].harmonic_mask]

\* The notes of the recording of note k only.
OwnFileOnly(k) ==
    SelectSeq(notes, LAMBDA n : n.source_file = notes[k].source_file)

\* The list with every note of another recording made as disturbing as
\* possible: the pitch and the span of note k, full amplitude.
OtherFilesAltered(k) ==
    [i \in 1..Len(notes) |->
        IF notes[i].source_file = notes[k].source_file THEN notes[i]
        ELSE [notes[i] EXCEPT !.midi_note = notes[k].midi_note,
                              !.amplitude = 10000,
                              !.onset_s = notes[k].onset_s,
                              !.offset_s = notes[k].offset_s]]

\* C16: what score_notes stores on the note it has just scored is a function
\* of that note and of the notes of the same source_file: it is what the
\* loop body computes from the list without the notes of other files, and
\* from the list with those notes altered.
C16_ScoreLocalToRecording ==
    pos > 1 =>
        /\ Stored(pos - 1) = ScoreOutcome(notes[pos - 1], OwnFileOnly(pos - 1))
        /\ Stored(pos - 1) =
             ScoreOutcome(notes[pos - 1], OtherFilesAltered(pos - 1))

\* C16 witness: a fully scored note of 600 ms with a louder concurrent note
\* of the same pitch in another recording, scored 1.0.
C16_Witness ==
    /\ Len(notes) = 2
    /\ branch[1] = "full"
    /\ notes[2].source_file # notes[1].source_file
    /\ notes[2].midi_note = notes[1].midi_note
    /\ notes[2].onset_s = notes[1].onset_s
    /\ notes[2].amplitude > notes[1].amplitude
    /\ notes[1].amplitude > 0
    /\ notes[1].isolation_score = S

\* The weight the tier field of a feature record stands for.
WeightOfTierField(tier) ==
    IF tier = Some("gold") THEN S
    ELSE IF tier = Some("silver") THEN 600000
    ELSE 300000

\* C19: the weight of every dataset row is 1.0 when the observation's tier
\* is gold, 0.6 when silver, 0.3 when bronze, missing or unrecognized.
C19_WeightByTier ==
    /\ \A k \in 1..Len(weights_list) :
         weights_list[k] = WeightOfTierField(RealById(note_ids[k]).isolation_tier)
    /\ dataset # <<>> =>
         \A k \in 1..Len(dataset[1].weights) :
            /\ dataset[1].weights[k] \in {S, 600000, 300000}
            /\ dataset[1].weights[k] =
                 WeightOfTierField(RealById(dataset[1].note_ids[k]).isolation_tier)

\* C19 witness: a returned dataset whose first row is a silver observation
\* of weight 0.6 and whose second row has an unrecognized tier and
\* weight 0.3.
C19_Witness ==
    /\ dataset # <<>>
    /\ Len(dataset[1].weights) = 2
    /\ real_features[1].isolation_tier = Some("silver")
    /\ real_features[2].isolation_tier = Some("unknown")
    /\ dataset[1].weights = <<600000, 300000>>

(***************************************************************************)
(* Properties of the stage sequence (specification SpecPipe)               *)
(***************************************************************************)
\* The residual stage has returned from assemble_dataset with no row.
NoRowsKept == dataset # <<>> /\ Len(dataset[1].inputs) = 0

\* C13: no unmatched or fully masked observation is fatal: whatever the
\* real and model features, also when every observation is dropped, the
\* residual stage does not abort (it prints the summary and saves).
C13_ResidualStageNeverAborts == stage # "aborted"

\* C13 witness: the stage has aborted in print_dataset_summary after every
\* observation was counted and dropped as fully masked, nothing saved.
C13_Witness ==
    /\ stage = "aborted"
    /\ NoRowsKept
    /\ dataset[1].filter_stats.total_notes > 0
    /\ dataset[1].filter_stats.matched = dataset[1].filter_stats.total_notes
    /\ saved = <<>>

\* The same abort when every observation is unmatched.
C13_AbortAllUnmatched ==
    /\ stage = "aborted"
    /\ dataset[1].filter_stats.total_notes > 0
    /\ dataset[1].filter_stats.matched = 0

\* With at least one row kept the stage does run to completion.
C13_RowsKeptNotAborted ==
    (dataset # <<>> /\ Len(dataset[1].inputs) > 0) => stage # "aborted"

\* The recording of the feature record with a given id.
FileOfFeature(id) ==
    real_features[CHOOSE k \in 1..Len(real_features) :
                     real_features[k].id = id].source_file

\* The notes of recording sf that have a feature record / a dataset row.
HasFeature(sf) ==
    \E k \in 1..Len(real_features) : real_features[k].source_file = sf

HasRow(sf) ==
    /\ dataset # <<>>
    /\ \E r \in 1..Len(dataset[1].note_ids) :
          FileOfFeature(dataset[1].note_ids[r]) = sf

\* The extraction stage: a recording that does not load is reported when
\* it has eligible notes, none of its notes gets a feature record, and the
\* eligible notes of the other recordings get theirs.
ExtractionSkipsUndecodable ==
    stage # "score" =>
        \A sf \in Files :
            IF sf \in env.audio.decodable
            THEN \A k \in 1..Len(notes) :
                    (/\ notes[k].source_file = sf
                     /\ EligibleTier(Some(notes[k].isolation_tier),
                                     env.min_tier))
                    => \E j \in 1..Len(real_features) :
                          real_features[j] = FeatureRecord(notes[k], env.audio.length_ms,
                                                          ~env.goertzel_all)
            ELSE /\ ~HasFeature(sf)
                 /\ (\E k \in 1..Len(notes) :
                        /\ notes[k].source_file = sf
                        /\ EligibleTier(Some(notes[k].isolation_tier),
                                        env.min_tier))
                    => <<"extract", sf>> \in reported

\* The SNR measurement of the residual stage: a recording that does not
\* load is reported and none of its notes yields a dataset row.
SnrStageSkipsUndecodable ==
    (SnrEnabled /\ stage \notin {"score", "extracted"}) =>
        \A sf \in Files :
            (env.audio.snr_status[sf] = "undecodable" /\ HasFeature(sf)) =>
                /\ <<"snr", sf>> \in reported
                /\ ~HasRow(sf)

\* C14: in both stages that decode audio (harmonic extraction, SNR
\* measurement of the residual stage) a recording that cannot be decoded
\* is reported, none of its notes yields a feature record or a dataset
\* row, and the notes of the other recordings are processed.
C14_UndecodableFileSkipped ==
    ExtractionSkipsUndecodable /\ SnrStageSkipsUndecodable

\* C14 witness: a.wav loaded in the extraction stage but not in the SNR
\* measurement; the failure was reported, and the dataset returned holds
\* a row for a note of a.wav, computed without any SNR.
C14_Witness ==
    /\ SnrEnabled
    /\ env.audio.snr_status["a.wav"] = "undecodable"
    /\ <<"snr", "a.wav">> \in reported
    /\ HasRow("a.wav")
    /\ \A id \in DOMAIN snr_cache : FileOfFeature(id) # "a.wav"

\* A recording that failed in the extraction stage was skipped whole.
C14_ExtractionFailureReached ==
    /\ stage = "saved"
    /\ <<"extract", "a.wav">> \in reported
    /\ ~HasFeature("a.wav")
    /\ HasRow("b.wav")

\* The last iteration of assemble_dataset computed targets with an SNR
\* array measured by a run of compute_residuals.py with filtering on.
GatedIteration ==
    /\ SnrEnabled
    /\ stage = "assemble"
    /\ last \in {"kept", "masked"}
    /\ snr_db # None

\* The H2 targets (frequency, decay, displacement scale) are valid only
\* if the second harmonic's SNR reaches the threshold t (in dB).
H2TargetsRespect(t) ==
    \A i \in {0, N_FREQ, DS_IDX} :
        At(mask_vec, i) =>
            /\ ~IsNone(At(snr_db, 1))
            /\ Val(At(snr_db, 1)) >= t * S

\* C18: the threshold given with --snr-threshold is the one applied: with
\* filtering on, a frequency, decay or displacement-scale target is gated
\* out when the harmonic's SNR is below the configured threshold.
C18_ConfiguredThresholdApplied ==
    GatedIteration => H2TargetsRespect(env.residual.snr_threshold)

\* C18 witness: --snr-threshold 15, second harmonic measured at 12 dB, and
\* the H2 frequency, decay and displacement-scale targets are all valid.
C18_Witness ==
    /\ GatedIteration
    /\ env.residual.snr_threshold = 15
    /\ Val(At(snr_db, 1)) = 12 * S
    /\ At(mask_vec, 0) /\ At(mask_vec, N_FREQ) /\ At(mask_vec, DS_IDX)

\* What is applied is the module constant, whatever the argument.
C18_ModuleConstantApplied ==
    GatedIteration => H2TargetsRespect(SNR_THRESHOLD_DB)

\* The gate does act in these runs: H2 at 5 dB, all three targets masked.
C18_GateReached ==
    /\ GatedIteration
    /\ Val(At(snr_db, 1)) = 5 * S
    /\ ~At(mask_vec, 0) /\ ~At(mask_vec, N_FREQ) /\ ~At(mask_vec, DS_IDX)
    /\ At(mask_vec, 1)

\* The tiers at or above a minimum tier, gold > silver > bronze.
AtOrAbove(min_tier) ==
    CASE min_tier = "gold" -> {"gold"}
      [] min_tier = "silver" -> {"gold", "silver"}
      [] min_tier = "bronze" -> {"gold", "silver", "bronze"}

\* The note a feature record was made from.
NoteOfFeature(j) ==
    CHOOSE k \in 1..Len(notes) : notes[k].id = real_features[j].id

\* Note k has a feature record / a row in the returned dataset.
NoteHasFeature(k) ==
    \E j \in 1..Len(real_features) : real_features[j].id = notes[k].id

NoteHasRow(k) ==
    /\ dataset # <<>>
    /\ \E r \in 1..Len(dataset[1].note_ids) :
          dataset[1].note_ids[r] = notes[k].id

\* C17: extract_all_harmonics makes feature records only for notes whose
\* tier is at or above the configured minimum tier, at most one per note;
\* a note whose tier is reject, pending, missing or unrecognized gets no
\* feature record and no dataset row, whatever the minimum tier.
C17_OnlyQualifyingNotesExtracted ==
    /\ \A j \in 1..Len(real_features) :
          /\ \E k \in 1..Len(notes) : notes[k].id = real_features[j].id
          /\ notes[NoteOfFeature(j)].isolation_tier \in AtOrAbove(env.min_tier)
          /\ \A i \in 1..Len(real_features) :
                real_features[i].id = real_features[j].id => i = j
    /\ \A k \in 1..Len(notes) :
          notes[k].isolation_tier \in {"reject", "pending"} =>
              ~NoteHasFeature(k) /\ ~NoteHasRow(k)
    /\ \A mt \in {"gold", "silver", "bronze"} :
          \A tier \in {None, Some("unknown"), Some(""), Some("reject"),
                       Some("pending")} :
              ~EligibleTier(tier, mt)

\* C17 witness: the run has saved a dataset with a row for a qualifying
\* note, while another note of the list, rejected or still pending, has
\* neither a feature record nor a row.
C17_Witness ==
    /\ stage = "saved"
    /\ \E k \in 1..Len(notes) : NoteHasFeature(k) /\ NoteHasRow(k)
    /\ \E k \in 1..Len(notes) :
          /\ notes[k].isolation_tier \in {"reject", "pending"}
          /\ ~NoteHasFeature(k)

\* Both excluded tiers occur at extraction, and the minimum tier excludes
\* a silver note when it is gold.
C17_PendingSeen ==
    stage = "extracted" /\ \E k \in 1..Len(notes) :
        notes[k].isolation_tier = "pending"

C17_RejectSeen ==
    stage = "extracted" /\ \E k \in 1..Len(notes) :
        notes[k].isolation_tier = "reject"

C17_SilverBelowGold ==
    /\ stage = "extracted"
    /\ env.min_tier = "gold"
    /\ \E k \in 1..Len(notes) :
          notes[k].isolation_tier = "silver" /\ ~NoteHasFeature(k)

\* The tier, score and mask fields of note k.
Verdict(ns, k) ==
    <<ns[k].isolation_tier, ns[k].isolation_score, ns[k].sub_scores,
      ns[k].harmonic_mask>>

\* Ground-truth notes are gold from creation on, a note score_notes has
\* passed is never pending, and a note it has not reached is as created.
TierStates ==
    \A k \in 1..Len(notes) :
        /\ notes[k].source_type = "obm_isolated" =>
              notes[k].isolation_tier = "gold"
        /\ k < pos => notes[k].isolation_tier
                         \in {"gold", "silver", "bronze", "reject"}
        /\ (k >= pos /\ notes[k].source_type # "obm_isolated") =>
              notes[k].isolation_tier = "pending"

\* One step: a note's tier, score or mask changes only while score_notes
\* handles that note, which it does once; a tier that changes goes from
\* pending to one of the four final tiers; the later stages change no
\* field of any note.
TierSteps ==
    /\ Len(notes') = Len(notes)
    /\ \A k \in 1..Len(notes) :
          /\ Verdict(notes', k) # Verdict(notes, k) =>
                /\ stage = "score"
                /\ k = pos
                /\ pos' = pos + 1
                /\ branch[k] = "none"
          /\ notes'[k].isolation_tier # notes[k].isolation_tier =>
                /\ notes[k].isolation_tier = "pending"
                /\ notes'[k].isolation_tier
                      \in {"gold", "silver", "bronze", "reject"}
    /\ stage # "score" => notes' = notes
    /\ pos' >= pos

\* C15: a note's isolation_tier makes at most one transition, pending to
\* one of gold, silver, bronze, reject, made by score_notes; ground-truth
\* notes are gold throughout; after score_notes no note is pending; and
\* extraction, rendering and residual assembly change no note's tier,
\* score or mask.
C15_TierSingleTransition == []TierStates /\ [][TierSteps]_vars

\* C15 witness: the whole run is done; the list holds a ground-truth note
\* at gold and a transcribed note that score_notes moved from pending to
\* a final tier, both as score_notes left them.
C15_Witness ==
    /\ stage = "saved"
    /\ pos > Len(notes)
    /\ \E k \in 1..Len(notes) :
          notes[k].source_type = "obm_isolated" /\ branch[k] = "bypass"
    /\ \E k \in 1..Len(notes) :
          /\ branch[k] = "full"
          /\ notes[k].isolation_tier \in {"gold", "silver", "bronze"}

(***************************************************************************)
(* Properties of score_harmonic_collision (specification SpecCollision)    *)
(***************************************************************************)
\* The decayed amplitude of released note j at the window start of k.
AbsDecayed(j, k) ==
    Mul(decay_remaining_amplitude(notes[j].midi_note,
          Sec(AnalysisWindow(notes[k]).start - notes[j].offset_s)),
        Amp(notes[j]))

\* Harmonic h of note k lies within 50 cents of harmonic g of note j: the
\* distance in cents is 100 * (pitch difference) + 1200 * log2(h / g).
\* 1200 * log2(h / g) in units of 1e-4 cent.
HarmonicCents(h, g) ==
    IF h >= g THEN 12 * Div(Ln(Div(h, g)), LN2)
    ELSE 0 - 12 * Div(Ln(Div(g, h)), LN2)

CentsApart(k, h, j, g) ==
    Abs(1000000 * (notes[k].midi_note - notes[j].midi_note)
        + HarmonicCents(h, g))

NearHarmonic(k, h, j) ==
    \E g \in 1..N_HARMONICS : CentsApart(k, h, j, g) < 500000

\* The notes the claim has tested against note k: sounding in the window,
\* or released before it with more than 5% decayed energy relative to
\* the amplitude of k.
TestedAsStated(j, k) ==
    \/ SoundsIn(j, k)
    \/ ReleasedBefore(j, k) /\ RelDecayed(j, k) > 50000

\* The notes the code tests: the 5% is of full scale, not of the target.
TestedAbsolute(j, k) ==
    \/ SoundsIn(j, k)
    \/ ReleasedBefore(j, k) /\ AbsDecayed(j, k) > 50000

\* C21: a target harmonic is marked contaminated exactly when a harmonic
\* (1..8) of another note of the recording lies within 50 cents of it,
\* that note being active in the target's analysis window or released
\* before it with more than 5% decayed energy relative to the target.
C21_CollisionAsStated ==
    \A k \in 1..Len(notes) :
        branch[k] = "full" =>
            \A h \in 1..N_HARMONICS :
                ~notes[k].harmonic_mask[h] <=>
                    \E j \in 1..Len(notes) :
                        TestedAsStated(j, k) /\ NearHarmonic(k, h, j)

\* C21 witness: an earlier note of the target's pitch, released before the
\* target's window, decayed to more than 5% of the target's amplitude but
\* under 5% of full scale; the target's mask is all clean.
C21_Witness ==
    /\ branch[2] = "full"
    /\ notes[1].midi_note = notes[2].midi_note
    /\ ReleasedBefore(1, 2)
    /\ RelDecayed(1, 2) > 50000
    /\ AbsDecayed(1, 2) <= 50000
    /\ notes[2].harmonic_mask = AllTrueMask

\* With the 5% taken of full scale the statement holds.
C21_CollisionAbsolute ==
    \A k \in 1..Len(notes) :
        branch[k] = "full" =>
            \A h \in 1..N_HARMONICS :
                ~notes[k].harmonic_mask[h] <=>
                    \E j \in 1..Len(notes) :
                        TestedAbsolute(j, k) /\ NearHarmonic(k, h, j)

\* Partial masks occur: a fifth below contaminates H3 and H6 only.
C21_PartialMaskReached ==
    /\ branch[2] = "full"
    /\ notes[1].midi_note = 67
    /\ notes[2].harmonic_mask = [h \in 1..N_HARMONICS |-> h \notin {3, 6}]

(***************************************************************************)
(* Further properties of compute_note_residual (specification SpecAsm)     *)
(***************************************************************************)
\* The anomalous set of the last matched observation.
LastAnomalous == detect_anomalous_harmonics(LastRealWin.amps_dB_rel_H1)

\* The mask the last observation would get with no harmonic anomalous.
MaskNoAnomaly ==
    [j \in 1..N_TARGETS |->
        TargetAt(j - 1, LastReal, LastModel, LastRealWin, LastModelWin,
                 snr_db, {}) # None]

\* C22: detect_anomalous_harmonics returns exactly the indices h in 1..6
\* (0 = H2, 1 = H3, ...) whose harmonic and next-lower harmonic both have
\* a dB value, the higher one strictly louder; 0 (H2) is never returned,
\* so the H2 frequency, H2 decay and displacement-scale targets are never
\* invalidated by it, and only the H3 targets (indices 1 and 6) can be.
C22_AnomalyOnlyInvalidatesH3 ==
    (LastMatched /\ LastHasPrimary) =>
        /\ \A h \in 0..7 :
              h \in LastAnomalous <=>
                 /\ h \in 1..6
                 /\ LastRealWin.amps_dB_rel_H1[h + 2] # None
                 /\ LastRealWin.amps_dB_rel_H1[h + 1] # None
                 /\ LastRealWin.amps_dB_rel_H1[h + 2][1]
                       > LastRealWin.amps_dB_rel_H1[h + 1][1]
        /\ \A i \in 0..10 :
              At(mask_vec, i) <=>
                 /\ At(MaskNoAnomaly, i)
                 /\ ~(i \in {1, 6} /\ 1 \in LastAnomalous)

\* C22 witness: H2 is louder than H1 in the real window, yet nothing is
\* flagged and the H2 frequency, H2 decay and displacement-scale targets
\* are all valid.
C22_Witness ==
    /\ LastMatched
    /\ LastHasPrimary
    /\ ~IsNone(At(LastRealWin.amps_dB_rel_H1, 1))
    /\ Val(At(LastRealWin.amps_dB_rel_H1, 1))
          > Val(At(LastRealWin.amps_dB_rel_H1, 0))
    /\ LastAnomalous = {}
    /\ At(mask_vec, 0) /\ At(mask_vec, 5) /\ At(mask_vec, 10)

\* H4 louder than H3 is flagged (h = 2) without invalidating anything.
C22_H4FlaggedReached ==
    /\ LastMatched
    /\ LastHasPrimary
    /\ LastAnomalous = {2}
    /\ \A i \in 0..10 : At(mask_vec, i) <=> i \in {0, 1, 5, 6, 10}

\* The targets computed from one given window of each side.
TargetsFrom(real_win, model_win) ==
    [j \in 1..N_TARGETS |->
        TargetAt(j - 1, LastReal, LastModel, real_win, model_win, snr_db,
                 detect_anomalous_harmonics(real_win.amps_dB_rel_H1))]

BothHave(name) ==
    /\ ~IsNone(LastReal.windows[name])
    /\ ~IsNone(LastModel.windows[name])

\* C23: compute_note_residual takes dB and frequencies from early_sustain
\* of both sides when both have it, otherwise from sustain of both sides
\* when both have it, otherwise the target is all invalid (11 mask entries
\* False); in the fallback to sustain no decay target (indices 5..9) is
\* valid.
C23_PrimaryWindowFallback ==
    LastMatched =>
        /\ Len(mask_vec) = 11
        /\ BothHave("early_sustain") =>
              targets = TargetsFrom(Val(LastReal.windows.early_sustain),
                                    Val(LastModel.windows.early_sustain))
        /\ (~BothHave("early_sustain") /\ BothHave("sustain")) =>
              /\ targets = TargetsFrom(Val(LastReal.windows.sustain),
                                       Val(LastModel.windows.sustain))
              /\ \A i \in 5..9 : ~At(mask_vec, i)
        /\ (~BothHave("early_sustain") /\ ~BothHave("sustain")) =>
              \A i \in 0..10 : ~At(mask_vec, i)

\* C23 witness: the real side lacks early_sustain, the model side has it
\* with other dB values than its sustain window; the targets come from
\* the sustain windows of both sides: frequency and displacement-scale
\* targets valid, no decay target.
C23_Witness ==
    /\ last = "kept"
    /\ IsNone(LastReal.windows.early_sustain)
    /\ ~IsNone(LastModel.windows.early_sustain)
    /\ BothHave("sustain")
    /\ Val(LastModel.windows.early_sustain).amps_dB_rel_H1
          # Val(LastModel.windows.sustain).amps_dB_rel_H1
    /\ At(mask_vec, 0) /\ At(mask_vec, 10)
    /\ \A i \in 5..9 : ~At(mask_vec, i)

\* The other two cases occur as well.
C23_EarlyReached ==
    last = "kept" /\ BothHave("early_sustain") /\ At(mask_vec, 5)

C23_NoWindowReached ==
    /\ last = "masked"
    /\ ~BothHave("early_sustain")
    /\ ~BothHave("sustain")
    /\ ~IsNone(LastReal.windows.sustain)

(***************************************************************************)
(* Further properties of the stage sequence (specification SpecPipe)       *)
(***************************************************************************)
\* The three arrays of a window hold 8 entries each, null exactly at the
\* harmonics the mask marks contaminated.
NulledByMask(win, harmonic_mask) ==
    /\ Len(win.amps_linear) = 8
    /\ Len(win.amps_dB_rel_H1) = 8
    /\ Len(win.freqs_hz) = 8
    /\ \A h \in 1..8 :
          IF harmonic_mask[h]
          THEN /\ win.amps_linear[h] # None
               /\ win.amps_dB_rel_H1[h] # None
               /\ win.freqs_hz[h] # None
          ELSE /\ win.amps_linear[h] = None
               /\ win.amps_dB_rel_H1[h] = None
               /\ win.freqs_hz[h] = None

\* The isolation mask of note k; a note that carries none (a ground-truth
\* note extracted before scoring) has every harmonic clean.
MaskOrClean(k) ==
    IF notes[k].harmonic_mask = <<>> THEN [h \in 1..8 |-> TRUE]
    ELSE notes[k].harmonic_mask

DurationOfFeature(j) ==
    notes[NoteOfFeature(j)].offset_s - notes[NoteOfFeature(j)].onset_s

\* C25 (as stated): every decay sample of every feature record is taken
\* on the sub-window from t - 50 ms to t + 50 ms around its time point
\* t, and is null exactly when t is within 50 ms of the note end or that
\* sub-window holds under 64 samples.
C25_DecayWindowCentred ==
    \A j \in 1..Len(real_features) :
        \A i \in 1..Len(DECAY_TIMES) :
            real_features[j].decay.spans[i]
                = DecaySpanCentred(DECAY_TIMES[i], notes[NoteOfFeature(j)],
                                   env.audio.length_ms)

\* C25 witness: a 600 ms note whose decay sample for t = 0.5 s is valid
\* and was measured on samples 22050 to 26460, which is 500 ms to 600 ms
\* after the onset and ends at the note end.
C25_Witness ==
    \E j \in 1..Len(real_features) :
        /\ DurationOfFeature(j) = 600
        /\ real_features[j].decay.spans[3] = Some(<<22050, 26460>>)
        /\ real_features[j].decay.rate_fitted

\* C25, the rest of the claim: a decay sample is null exactly when its
\* time point is within 50 ms of the note end or fewer than 64 samples
\* of the note follow it, and the decay rate is fitted only with 3 valid
\* samples or more.
C25_NullRuleAndFit ==
    \A j \in 1..Len(real_features) :
        /\ \A i \in 1..Len(DECAY_TIMES) :
              IsNone(real_features[j].decay.spans[i])
                  <=> \/ DECAY_TIMES[i] >= DurationOfFeature(j) - 50
                      \/ NoteAudioLen(notes[NoteOfFeature(j)],
                                      env.audio.length_ms)
                            - Samples(DECAY_TIMES[i]) < 64
        /\ real_features[j].decay.rate_fitted =>
              Cardinality({i \in 1..Len(DECAY_TIMES) :
                              ~IsNone(real_features[j].decay.spans[i])}) >= 3

\* C25: a recording cut off 1 ms after t = 0.5 s leaves 44 samples for
\* that decay sample, which is null, and with 2 valid samples no decay
\* rate is fitted.
C25_ShortSegmentReached ==
    ~ \E j \in 1..Len(real_features) :
        /\ DurationOfFeature(j) = 600
        /\ env.audio.length_ms = 501
        /\ IsNone(real_features[j].decay.spans[3])
        /\ ~IsNone(real_features[j].decay.spans[2])
        /\ ~real_features[j].decay.rate_fitted

\* The estimator the claim states for a note of the given tier.
StatedEstimator(tier) ==
    IF env.goertzel_all \/ tier = "gold" THEN "goertzel" ELSE "fft"

\* C29 (as stated): with --goertzel-all every feature record is measured
\* with the Goertzel estimator; without it the gold records are measured
\* with Goertzel and the silver and bronze ones with the FFT estimator.
C29_GoertzelAllSelectsGoertzel ==
    \A j \in 1..Len(real_features) :
        real_features[j].estimator
            = StatedEstimator(Val(real_features[j].isolation_tier))

\* C29 witness: a run with --goertzel-all in which a gold note's record
\* was measured with the FFT estimator.
C29_Witness ==
    \E j \in 1..Len(real_features) :
        /\ env.goertzel_all
        /\ real_features[j].isolation_tier = Some("gold")
        /\ real_features[j].estimator = "fft"

\* C29, the half that holds: without --goertzel-all the gold records are
\* measured with Goertzel and all others with the FFT estimator; with the
\* flag all records are measured with the FFT estimator.
C29_FlagSelectsFft ==
    \A j \in 1..Len(real_features) :
        real_features[j].estimator
            = IF ~env.goertzel_all
                 /\ real_features[j].isolation_tier = Some("gold")
              THEN "goertzel" ELSE "fft"

\* C29: without the flag, records of both estimators are produced in one
\* run (a gold and a lower-tier note).
C29_BothEstimatorsReached ==
    ~ /\ ~env.goertzel_all
      /\ \E j \in 1..Len(real_features) :
            real_features[j].estimator = "goertzel"
      /\ \E j \in 1..Len(real_features) :
            /\ real_features[j].estimator = "fft"
            /\ real_features[j].isolation_tier \in {Some("silver"),
                                                    Some("bronze")}

\* How often load_audio was called on recording sf in the given stage.
DecodeCount(st, sf) ==
    Cardinality({i \in 1..Len(decodes) : decodes[i] = <<st, sf>>})

\* C26 (as stated): within one run of a stage that decodes audio, every
\* recording is decoded at most once, however many notes refer to it and
\* whether or not the decode succeeds.
C26_DecodedAtMostOnce ==
    \A st \in {"extract", "snr"} : \A sf \in Files : DecodeCount(st, sf) <= 1

\* C26 witness: the SNR measurement ran over two feature records of
\* a.wav, which does not decode, and called load_audio on it twice.
C26_Witness ==
    /\ stage = "assemble"
    /\ env.audio.snr_status["a.wav"] = "undecodable"
    /\ Cardinality({j \in 1..Len(real_features) :
                       real_features[j].source_file = "a.wav"}) = 2
    /\ DecodeCount("snr", "a.wav") = 2

\* C26, the part that holds: extract_all_harmonics decodes a recording at
\* most once, and load_audio_for_snr decodes a recording that loads at
\* most once.
C26_OncePerFileWhenLoaded ==
    \A sf \in Files :
        /\ DecodeCount("extract", sf) <= 1
        /\ env.audio.snr_status[sf] = "ok" => DecodeCount("snr", sf) <= 1

\* C26: a recording that loads was decoded once in each stage for two
\* notes.
C26_SharedDecodeReached ==
    ~ /\ stage = "assemble"
      /\ Cardinality({j \in 1..Len(real_features) :
                         real_features[j].source_file = "a.wav"}) = 2
      /\ DecodeCount("extract", "a.wav") = 1
      /\ DecodeCount("snr", "a.wav") = 1

\* The last iteration of assemble_dataset computed the targets of a note
\* whose recording is readable, in a run started the given way with
\* default options.
DefaultIteration(entry) ==
    /\ env.residual = [entry |-> entry, no_snr_filter |-> FALSE,
                       snr_threshold |-> SNR_THRESHOLD_DB]
    /\ stage = "assemble"
    /\ last \in {"kept", "masked"}
    /\ env.audio.snr_status[real_features[ri - 1].source_file] = "ok"

\* No H2 target (frequency, decay, displacement scale) is valid when the
\* second harmonic of the recording stands under 10 dB above the noise.
H2GatedBySnr ==
    \A i \in {0, N_FREQ, DS_IDX} :
        At(mask_vec, i) => env.h2_snr >= SNR_THRESHOLD_DB

\* C27 (as stated): stage 5 of pipeline.py and compute_residuals.py with
\* default options both apply the SNR gate: on neither path is a target
\* valid whose harmonic's SNR is below 10 dB.
C27_BothPathsApplySnrGate ==
    \A entry \in {"pipeline", "main"} : DefaultIteration(entry) => H2GatedBySnr

\* C27 witness: stage 5 of pipeline.py kept a row with valid H2
\* frequency, decay and displacement-scale targets for a recording whose
\* second harmonic is 5 dB above the noise; no SNR array was consulted.
C27_Witness ==
    /\ DefaultIteration("pipeline")
    /\ last = "kept"
    /\ env.h2_snr = 5
    /\ snr_db = None
    /\ At(mask_vec, 0) /\ At(mask_vec, N_FREQ) /\ At(mask_vec, DS_IDX)

\* C27, the half that holds: compute_residuals.py with default options
\* applies the gate.
C27_DirectRunAppliesSnrGate ==
    DefaultIteration("main") => H2GatedBySnr

\* C27: the direct run does gate in these runs: H2 at 5 dB, the three H2
\* targets masked and the H3 frequency target kept.
C27_DirectGateReached ==
    ~ /\ DefaultIteration("main")
      /\ env.h2_snr = 5
      /\ ~At(mask_vec, 0) /\ ~At(mask_vec, N_FREQ) /\ ~At(mask_vec, DS_IDX)
      /\ At(mask_vec, 1)

\* The row of the returned dataset made from note k, with its mask.
RowMaskOf(k) ==
    dataset[1].mask[CHOOSE r \in 1..Len(dataset[1].note_ids) :
                          dataset[1].note_ids[r] = notes[k].id]

\* C28: a note whose isolation mask marks H2 and H3 both contaminated
\* has no row in the dataset; a note whose mask marks H2 contaminated has
\* at most the H3 frequency and H3 decay targets (indices 1 and 6) valid,
\* in the iteration that computes them and in its row.
C28_ContaminatedH2H3NoRow ==
    /\ \A k \in 1..Len(notes) :
          (~MaskOrClean(k)[2] /\ ~MaskOrClean(k)[3]) => ~NoteHasRow(k)
    /\ \A k \in 1..Len(notes) :
          (~MaskOrClean(k)[2] /\ NoteHasRow(k)) =>
              \A i \in 0..(N_TARGETS - 1) :
                  At(RowMaskOf(k), i) => i \in {1, N_FREQ + 1}
    /\ (stage = "assemble" /\ last \in {"kept", "masked"}) =>
          LET k == NoteOfFeature(ri - 1)
          IN  /\ (~MaskOrClean(k)[2] /\ ~MaskOrClean(k)[3]) =>
                    last = "masked"
              /\ ~MaskOrClean(k)[2] =>
                    \A i \in 0..(N_TARGETS - 1) :
                        At(mask_vec, i) => i \in {1, N_FREQ + 1}

\* C28 witness: the dataset was returned after an iteration found no
\* valid target for a matched note with H2 and H3 contaminated, which has
\* a feature record with both windows and no row.
C28_Witness ==
    /\ dataset # <<>>
    /\ \E k \in 1..Len(notes) :
          /\ ~MaskOrClean(k)[2] /\ ~MaskOrClean(k)[3]
          /\ \E j \in 1..Len(real_features) :
                /\ real_features[j].id = notes[k].id
                /\ ~IsNone(real_features[j].windows.sustain)
                /\ ModelKey(real_features[j]) \in DOMAIN model_features
          /\ ~NoteHasRow(k)

\* C28: a note with only H2 (of H2 and H3) contaminated has a row whose
\* valid targets are exactly the H3 frequency and H3 decay targets.
C28_OnlyH3Reached ==
    ~ \E k \in 1..Len(notes) :
        /\ ~MaskOrClean(k)[2] /\ MaskOrClean(k)[3]
        /\ NoteHasRow(k)
        /\ \A i \in 0..(N_TARGETS - 1) :
              At(RowMaskOf(k), i) <=> i \in {1, N_FREQ + 1}

\* The stages the options ask for: from_stage <= n <= through_stage,
\* where through_stage is 7 with --train.
StagesRequested ==
    {n \in 1..7 : /\ argv.from_stage <= n
                  /\ n <= (IF argv.train THEN 7 ELSE argv.through_stage)}

\* The stages executed so far.
ExecutedSet == {executed[i] : i \in 1..Len(executed)}

\* Every state of a run: the executed stages are requested ones in
\* ascending order (so each at most once); a finished run has executed
\* all of them; a dry run executes none and labels RUN exactly the
\* requested stages.
RunnerStates ==
    /\ ExecutedSet \subseteq StagesRequested
    /\ \A i \in 1..(Len(executed) - 1) : executed[i] < executed[i + 1]
    /\ run_pc = "complete" => ExecutedSet = StagesRequested
    /\ argv.dry_run => executed = <<>>
    /\ run_pc = "returned" =>
          {n \in 1..7 : labels[n] = "RUN"} = StagesRequested

\* Every step of a run: a stage starts only while no stage is executing,
\* and nothing is executed after a stage raised or exited.
RunnerSteps ==
    /\ executed' # executed => (running = 0 /\ run_pc # "terminated")
    /\ run_pc = "terminated" => UNCHANGED runVars

\* C30: pipeline.py executes exactly the stages n with from_stage <= n <=
\* through_stage (7 with --train), each at most once and in ascending
\* order, a stage starting only after the previous one has returned and
\* none after a stage raised or exited; with --dry-run no stage is
\* executed and the stages labelled RUN are the ones a real run with the
\* same options executes.
C30_StagesRunInRange ==
    [](run_pc # "idle" => RunnerStates) /\ [][RunnerSteps]_vars

\* C30 witness: a finished run with --from-stage 3 --through-stage 2
\* --train that skipped stages 1 and 2 and executed stages 3 to 7.
C30_Witness ==
    /\ run_pc = "complete"
    /\ argv.from_stage = 3 /\ argv.through_stage = 2 /\ argv.train
    /\ executed = <<3, 4, 5, 6, 7>>
    /\ labels = <<"SKIPPED", "SKIPPED">>

\* C30: a dry run with the default range labels stages 1 to 5 RUN and
\* executes nothing.
C30_DryRunReached ==
    ~ /\ run_pc = "returned"
      /\ argv.from_stage = 1 /\ argv.through_stage = 5 /\ ~argv.train
      /\ {n \in 1..7 : labels[n] = "RUN"} = 1..5
      /\ executed = <<>>

\* C30: a run ended in stage 4, after stages 3 and 4 were started.
C30_StageFailureReached ==
    ~ /\ run_pc = "terminated"
      /\ running = 4
      /\ executed = <<3, 4>>

=============================================================================
